---- MODULE Spec2Model ----
(***************************************************************************)
(* Plagiarism analysis pipeline of trust-lens: the safe wrapper            *)
(* runPlagiarismPipeline, checkPlagiarism with its batch-wise chunk        *)
(* processing, the Source Finder / Similarity Scorer / Authorship          *)
(* Classifier adapters and the retry executor they share.                  *)
(*                                                                         *)
(* A document is a prefix of one master text, so a text is identified by   *)
(* its length and a chunk by its [startIndex, endIndex) range.  Error      *)
(* messages are sequences of tokens: the code only ever asks whether a     *)
(* message contains a marker or starts with a prefix.  Scores and          *)
(* likelihoods are integers in hundredths (0.5 is 50).                      *)
(***************************************************************************)
EXTENDS Integers, Sequences, FiniteSets, TLC

\* ------------------------------------------------------------------------
\* Program constants
\* ------------------------------------------------------------------------
CHUNK_SIZE == 1500
CHUNK_OVERLAP == 200
MAX_CONCURRENT_CHUNKS == 3
MAX_CHUNKS_TO_PROCESS == 4
TOP_N_RESULTS == 5
MIN_TEXT_LENGTH == 50
MAX_RETRIES == 3
MAX_TEXT_LENGTH == 200000
AI_KEY_SAMPLE == 1000

\* ------------------------------------------------------------------------
\* Bounds of the model
\* ------------------------------------------------------------------------
\* pipeline runs per behaviour (the process-wide cache survives a run)
MaxRuns == 2
\* numbers of candidate sources a search returns
SourceCounts == {0, 1}
\* consecutive transient failures a service shows before it settles
MaxFails == 4
\* largest maxRetries argument given to retryWithBackoff on its own
MaxRetriesArg == 4

\* calls of the cache made in one process
MaxCalls == 3

\* longest text handed to chunkText on its own: three chunks
MaxTextLength == 3100

\* the loop of chunkText for any configuration: text lengths, chunk sizes
\* (overlaps go one further), and the chunks counted
MaxLoopText == 12
MaxChunkSize == 5
MaxChunksCounted == 20

\* texts handed to normalizeText: the short ones, and one well over the cap
MaxShortText == 60
MaxLongText == 250000
\* collaborator answers a pipeline run still waits for when it starts
MaxPipelineSteps == 2
\* search results whose scoring meets every cache read and service behaviour
MaxSources == 2
\* the text and the number of segments handed to the aggregation
MaxCoverText == 4
MaxSegments == 3
\* length of the chunk texts and number of adapter calls followed through the cache
MaxKeyText == 2
MaxLookups == 2

\* normalized lengths of the documents submitted: one chunk, three chunks
\* (one batch), five chunks (over the chunk cap, two batches)
DocLengths == {1200, 3000, 6000}
\* normalized length of a text that is too short
ShortLen == 20
\* length of the text held by an uploaded readable file
FileLen == 1200

Min(a, b) == IF a < b THEN a ELSE b
Max(a, b) == IF a > b THEN a ELSE b

\* ------------------------------------------------------------------------
\* Thrown values and their messages
\* ------------------------------------------------------------------------
\* A thrown value is an Error object, a bare string or null/undefined.
Err(m) == [kind |-> "Error", msg |-> m]
Str(m) == [kind |-> "string", msg |-> m]
Nullish == [kind |-> "nullish", msg |-> << >>]

\* message.includes(t)
Includes(m, t) == \E i \in 1..Len(m) : m[i] = t
\* message.startsWith(t)
StartsWith(m, t) == Len(m) > 0 /\ m[1] = t

\* error instanceof Error ? error.message : String(error)
ErrorMessage(e) ==
  IF e.kind = "nullish" THEN <<"null">> ELSE e.msg

\* ------------------------------------------------------------------------
\* Services behind the adapters
\* ------------------------------------------------------------------------
\* A service script: the service answers failResp for the first `fails'
\* calls and thenResp from then on.
RespAt(script, call) ==
  IF call < script.fails THEN script.failResp ELSE script.thenResp

Steady(r) == [fails |-> 0, failResp |-> r, thenResp |-> r]

\* every steady behaviour, and `transient' for 1..MaxFails calls followed by
\* the answer `recovered'
Scripts(settled, transient, recovered) ==
  {Steady(r) : r \in settled}
    \cup {[fails |-> k, failResp |-> transient, thenResp |-> recovered] :
            k \in 1..MaxFails}

Ok(v) == [kind |-> "ok", value |-> v]
Throw(e) == [kind |-> "throw", error |-> e]

\* a classification that retries nothing
IsRetryableNever(m) ==
  Len(m) < 0

\* a classification that retries everything
IsRetryableAlways(m) ==
  Len(m) >= 0

\* ------------------------------------------------------------------------
\* Retry executor
\* ------------------------------------------------------------------------
IsRetryable(m) ==
  \/ Includes(m, "network")
  \/ Includes(m, "timeout")
  \/ Includes(m, "502")
  \/ Includes(m, "500")
  \/ Includes(m, "503")
  \/ Includes(m, "504")
  \/ Includes(m, "429")
  \/ Includes(m, "ECONNRESET")
  \/ Includes(m, "ETIMEDOUT")


\* retryWithBackoff(fn, maxRetries, ...): fn[attempt + 1] is how the
\* invocation of fn in loop round `attempt' ends; the result carries the
\* number of invocations made.
RECURSIVE RetryFrom(_, _, _)
RetryFrom(fn, attempt, maxRetries) ==
  LET o == fn[attempt + 1] IN
  IF o.kind = "ok" THEN [outcome |-> o, calls |-> attempt + 1]
  ELSE IF attempt = maxRetries THEN [outcome |-> o, calls |-> attempt + 1]
  ELSE IF ~IsRetryable(ErrorMessage(o.error))
    THEN [outcome |-> o, calls |-> attempt + 1]
  ELSE RetryFrom(fn, attempt + 1, maxRetries)

retryWithBackoff(fn, maxRetries) ==
  RetryFrom(fn, 0, maxRetries)

\* ------------------------------------------------------------------------
\* Source Finder adapter (searchWebForChunk)
\* ------------------------------------------------------------------------
SearchResponses ==
  {[r |-> "ok", n |-> k] : k \in SourceCounts}
    \cup {[r |-> x, n |-> 0] : x \in {"http429", "http503", "netfail", "badjson"}}

SearchScripts ==
  Scripts(SearchResponses, [r |-> "http503", n |-> 0], [r |-> "ok", n |-> 1])

\* what the cache lookup of an adapter hands back: a miss, or a value an
\* earlier call of the same adapter stored under the key
Hit(v) == [hit |-> TRUE, value |-> v]
Miss == [hit |-> FALSE, value |-> 0]
SearchCacheReads == {Miss} \cup {Hit(k) : k \in SourceCounts}

\* one invocation of the function handed to retryWithBackoff
SearchAttempt(resp) ==
  CASE resp.r = "netfail" -> Throw(Err(<<"fetch failed">>))
    [] resp.r = "http429" ->
         Throw(Err(<<"UPSTREAM_ERROR", "Rate limit exceeded">>))
    [] resp.r = "http503" ->
         Throw(Err(<<"UPSTREAM_ERROR", "SerpAPI request failed", "503">>))
    [] resp.r = "badjson" -> Throw(Err(<<"Unexpected token">>))
    [] OTHER -> Ok(resp.n)

IsCriticalSearchError(m) ==
  \/ Includes(m, "502")
  \/ Includes(m, "500")
  \/ Includes(m, "503")
  \/ Includes(m, "504")
  \/ Includes(m, "5xx")
  \/ Includes(m, "network")
  \/ Includes(m, "fetch failed")
  \/ Includes(m, "timeout")
  \/ Includes(m, "SerpAPI request failed")
  \/ Includes(m, "UPSTREAM_ERROR")
  \/ Includes(m, "BAD_REQUEST")

\* the result is the number of sources found, or a thrown value; `calls'
\* counts the requests sent to the search service
searchWebForChunk(searchKey, cached, script) ==
  IF ~searchKey
    THEN [outcome |-> Throw(Err(<<"BAD_REQUEST", "Missing SEARCH_API_KEY">>)),
          calls |-> 0]
  ELSE IF cached.hit THEN [outcome |-> Ok(cached.value), calls |-> 0]
  ELSE
    LET fn == [a \in 1..(MAX_RETRIES + 1) |-> SearchAttempt(RespAt(script, a - 1))]
        r == retryWithBackoff(fn, MAX_RETRIES)
        m == ErrorMessage(r.outcome.error)
    IN
    IF r.outcome.kind = "ok" THEN r
    ELSE IF IsCriticalSearchError(m)
      THEN IF ~Includes(m, "UPSTREAM_ERROR") /\ ~Includes(m, "BAD_REQUEST")
             THEN [outcome |-> Throw(Err(<<"UPSTREAM_ERROR">> \o m)),
                   calls |-> r.calls]
             ELSE r
    ELSE [outcome |-> Ok(0), calls |-> r.calls]

\* ------------------------------------------------------------------------
\* Similarity Scorer adapter
\* ------------------------------------------------------------------------
RawScores == {30, 50, 80}

ScoreResponses ==
  {[r |-> "sim", v |-> s] : s \in RawScores}
    \cup {[r |-> x, v |-> 0] : x \in {"noparse", "badjson", "err503", "str503"}}

ScoreScripts ==
  Scripts(ScoreResponses, [r |-> "err503", v |-> 0], [r |-> "sim", v |-> 80])

ScoreCacheReads == {Miss} \cup {Hit(s) : s \in RawScores \cup {0}}

ScoreAttempt(resp) ==
  CASE resp.r = "sim" -> Ok(Max(0, Min(100, resp.v)))
    [] resp.r = "noparse" -> Ok(0)
    [] resp.r = "badjson" -> Throw(Err(<<"Unexpected token">>))
    [] resp.r = "err503" -> Throw(Err(<<"503", "Service Unavailable">>))
    [] OTHER -> Throw(Str(<<"503", "Service Unavailable">>))

\* a scorer that treats every error as critical
IsCriticalApiErrorAlways(m) ==
  Len(m) >= 0

IsCriticalApiError(m) ==
  \/ Includes(m, "502")
  \/ Includes(m, "500")
  \/ Includes(m, "503")
  \/ Includes(m, "504")
  \/ Includes(m, "5xx")
  \/ Includes(m, "network")
  \/ Includes(m, "fetch failed")
  \/ Includes(m, "timeout")
  \/ Includes(m, "service error")

scoreChunkAgainstSource(cached, script) ==
  IF cached.hit THEN [outcome |-> Ok(cached.value), calls |-> 0]
  ELSE
    LET fn == [a \in 1..(MAX_RETRIES + 1) |-> ScoreAttempt(RespAt(script, a - 1))]
        r == retryWithBackoff(fn, MAX_RETRIES)
    IN
    IF r.outcome.kind = "ok" THEN r
    ELSE IF IsCriticalApiError(ErrorMessage(r.outcome.error)) THEN r
    ELSE [outcome |-> Ok(0), calls |-> r.calls]

\* matches.sort((a, b) => b.similarityScore - a.similarityScore), stable
RECURSIVE InsertDesc(_, _)
InsertDesc(sorted, m) ==
  IF sorted = << >> THEN <<m>>
  ELSE IF Head(sorted).similarityScore >= m.similarityScore
    THEN <<Head(sorted)>> \o InsertDesc(Tail(sorted), m)
  ELSE <<m>> \o sorted

RECURSIVE SortDesc(_)
SortDesc(ms) ==
  IF ms = << >> THEN << >>
  ELSE InsertDesc(SortDesc(SubSeq(ms, 1, Len(ms) - 1)), ms[Len(ms)])

\* the for loop over topSources; reads[j] and scripts[j] are the cache read
\* and the service behaviour met for source j
RECURSIVE ScoreLoop(_, _, _, _, _)
ScoreLoop(j, top, reads, scripts, matches) ==
  IF j > top THEN [matches |-> matches, critical |-> FALSE, error |-> Nullish]
  ELSE
    LET o == scoreChunkAgainstSource(reads[j], scripts[j]).outcome IN
    IF o.kind = "ok"
      THEN ScoreLoop(j + 1, top, reads, scripts,
             IF o.value > 30
               THEN Append(matches, [source |-> j, similarityScore |-> o.value])
               ELSE matches)
    ELSE IF IsCriticalApiError(ErrorMessage(o.error))
      THEN [matches |-> matches, critical |-> TRUE,
            error |-> IF o.error.kind = "Error" THEN o.error
                      ELSE Err(ErrorMessage(o.error))]
    ELSE ScoreLoop(j + 1, top, reads, scripts, matches)

NotSuspicious ==
  Ok([suspicious |-> FALSE, similarityScore |-> 0, matches |-> << >>])

\* a scorer that already flags a chunk whose best match scores exactly 0.5
scoreChunkAgainstSourcesFromHalf(geminiKey, nSources, reads, scripts) ==
  IF nSources = 0 THEN NotSuspicious
  ELSE IF ~geminiKey THEN NotSuspicious
  ELSE
    LET l == ScoreLoop(1, Min(nSources, TOP_N_RESULTS), reads, scripts, << >>)
        sorted == SortDesc(l.matches)
        maxSimilarity ==
          IF Len(sorted) > 0 THEN sorted[1].similarityScore ELSE 0
    IN
    IF l.critical THEN Throw(l.error)
    ELSE Ok([suspicious |-> maxSimilarity >= 50,
             similarityScore |-> maxSimilarity,
             matches |-> sorted])

scoreChunkAgainstSources(geminiKey, nSources, reads, scripts) ==
  IF nSources = 0 THEN NotSuspicious
  ELSE IF ~geminiKey THEN NotSuspicious
  ELSE
    LET l == ScoreLoop(1, Min(nSources, TOP_N_RESULTS), reads, scripts, << >>)
        sorted == SortDesc(l.matches)
        maxSimilarity ==
          IF Len(sorted) > 0 THEN sorted[1].similarityScore ELSE 0
    IN
    IF l.critical THEN Throw(l.error)
    ELSE Ok([suspicious |-> maxSimilarity > 50,
             similarityScore |-> maxSimilarity,
             matches |-> sorted])

\* ------------------------------------------------------------------------
\* Authorship Classifier adapter (detectAIGeneratedText)
\* ------------------------------------------------------------------------
RawLikelihoods == {0, 30, 50, 70, 100}
ValidVerdicts == {"likely_ai", "likely_human", "uncertain"}
RawVerdicts == ValidVerdicts \cup {"bogus"}

AIResponses ==
  {[r |-> "json", likelihood |-> l, verdict |-> v] :
     l \in RawLikelihoods, v \in RawVerdicts}
    \cup {[r |-> x, likelihood |-> 0, verdict |-> "bogus"] :
            x \in {"noparse", "badjson", "err503", "netfail"}}

AIScripts ==
  Scripts(AIResponses, [r |-> "err503", likelihood |-> 0, verdict |-> "bogus"],
          [r |-> "json", likelihood |-> 70, verdict |-> "likely_ai"])

\* the threshold rule
VerdictFor(likelihood) ==
  IF likelihood >= 70 THEN "likely_ai"
  ELSE IF likelihood <= 30 THEN "likely_human"
  ELSE "uncertain"

Detection(l, v) == [likelihood |-> l, verdict |-> v]
UncertainDefault == Detection(50, "uncertain")

\* the verdict kept for a parsed answer
FinalVerdict(likelihood, verdict) ==
  IF verdict \in ValidVerdicts THEN verdict ELSE VerdictFor(likelihood)

AIAttempt(resp) ==
  CASE resp.r = "json" ->
         LET likelihood == Max(1, Min(99, resp.likelihood)) IN
         Ok(Detection(likelihood, FinalVerdict(likelihood, resp.verdict)))
    [] resp.r = "noparse" -> Ok(UncertainDefault)
    [] resp.r = "badjson" -> Throw(Err(<<"Unexpected token">>))
    [] resp.r = "err503" -> Throw(Err(<<"503", "Service Unavailable">>))
    [] OTHER -> Throw(Err(<<"fetch failed">>))

IsCriticalDetectionError(m) ==
  \/ Includes(m, "502")
  \/ Includes(m, "500")
  \/ Includes(m, "503")
  \/ Includes(m, "504")
  \/ Includes(m, "5xx")
  \/ Includes(m, "network")
  \/ Includes(m, "fetch failed")
  \/ Includes(m, "timeout")
  \/ Includes(m, "UPSTREAM_ERROR")
  \/ Includes(m, "BAD_REQUEST")

AIMiss == [hit |-> FALSE, value |-> UncertainDefault]

\* cache key of a text: the hash of its first AI_KEY_SAMPLE characters,
\* identified here with that sample (a prefix of the master text)
getAICacheKey(textLength) == Min(textLength, AI_KEY_SAMPLE)

\* `store' tells whether the call wrote its result to the cache
detectAIGeneratedText(geminiKey, cached, script) ==
  IF ~geminiKey
    THEN [outcome |-> Throw(Err(<<"BAD_REQUEST", "Missing GEMINI_API_KEY">>)),
          calls |-> 0, store |-> FALSE]
  ELSE IF cached.hit
    THEN [outcome |-> Ok(cached.value), calls |-> 0, store |-> FALSE]
  ELSE
    LET fn == [a \in 1..(MAX_RETRIES + 1) |-> AIAttempt(RespAt(script, a - 1))]
        r == retryWithBackoff(fn, MAX_RETRIES)
        m == ErrorMessage(r.outcome.error)
    IN
    IF r.outcome.kind = "ok"
      THEN [outcome |-> r.outcome, calls |-> r.calls,
            store |-> RespAt(script, r.calls - 1).r = "json"]
    ELSE IF IsCriticalDetectionError(m)
      THEN IF ~Includes(m, "UPSTREAM_ERROR") /\ ~Includes(m, "BAD_REQUEST")
             THEN [outcome |-> Throw(Err(<<"UPSTREAM_ERROR", "service error">> \o m)),
                   calls |-> r.calls, store |-> FALSE]
             ELSE [outcome |-> r.outcome, calls |-> r.calls, store |-> FALSE]
    ELSE [outcome |-> Ok(UncertainDefault), calls |-> r.calls, store |-> FALSE]

\* ------------------------------------------------------------------------
\* Chunker
\* ------------------------------------------------------------------------
\* a chunker that cuts the text into adjacent pieces
chunkTextAdjacent(textLength) ==
  [i \in 1..((textLength + CHUNK_SIZE - 1) \div CHUNK_SIZE) |->
     [startIndex |-> (i - 1) * CHUNK_SIZE,
      endIndex |-> Min(i * CHUNK_SIZE, textLength)]]

RECURSIVE ChunkLoop(_, _, _)
ChunkLoop(startIndex, textLength, chunks) ==
  IF ~(startIndex < textLength) THEN chunks
  ELSE
    LET endIndex == Min(startIndex + CHUNK_SIZE, textLength)
        pushed == Append(chunks, [startIndex |-> startIndex, endIndex |-> endIndex])
        next == startIndex + (CHUNK_SIZE - CHUNK_OVERLAP)
    IN
    IF endIndex = next THEN pushed ELSE ChunkLoop(next, textLength, pushed)

chunkText(textLength) == ChunkLoop(0, textLength, << >>)

\* ------------------------------------------------------------------------
\* Aggregator
\* ------------------------------------------------------------------------
\* [...segments].sort((a, b) => a.startIndex - b.startIndex), stable
RECURSIVE InsertByStart(_, _)
InsertByStart(sorted, seg) ==
  IF sorted = << >> THEN <<seg>>
  ELSE IF Head(sorted).startIndex <= seg.startIndex
    THEN <<Head(sorted)>> \o InsertByStart(Tail(sorted), seg)
  ELSE <<seg>> \o sorted

\* segments left in the order the tasks pushed them
SortByStartAsPushed(segs) == segs

RECURSIVE SortByStart(_)
SortByStart(segs) ==
  IF segs = << >> THEN << >>
  ELSE InsertByStart(SortByStart(SubSeq(segs, 1, Len(segs) - 1)), segs[Len(segs)])

RECURSIVE MergeLoop(_, _, _, _, _)
MergeLoop(sorted, i, currentStart, currentEnd, total) ==
  IF i > Len(sorted) THEN total + (currentEnd - currentStart)
  ELSE IF sorted[i].startIndex <= currentEnd
    THEN MergeLoop(sorted, i + 1, currentStart,
                   Max(currentEnd, sorted[i].endIndex), total)
  ELSE MergeLoop(sorted, i + 1, sorted[i].startIndex, sorted[i].endIndex,
                 total + (currentEnd - currentStart))

totalSuspiciousChars(segments) ==
  LET sorted == SortByStart(segments) IN
  MergeLoop(sorted, 2, sorted[1].startIndex, sorted[1].endIndex, 0)

\* a percentage that counts every segment as a full chunk, without merging
\* overlaps and without the clamp
calculatePlagiarismPercentageUnmerged(textLength, segments) ==
  [num |-> 100 * Len(segments) * CHUNK_SIZE, den |-> Max(1, textLength)]

\* the percentage is the rational num / den
calculatePlagiarismPercentage(textLength, segments) ==
  IF textLength = 0 \/ Len(segments) = 0 THEN [num |-> 0, den |-> 1]
  ELSE [num |-> Min(100 * textLength,
                    Max(0, totalSuspiciousChars(segments) * 100)),
        den |-> textLength]

\* combinedScore = percentage * 0.6 + likelihood * 100 * 0.4, compared after
\* multiplying through by 10 * den
determineRiskLevel(pct, aiLikelihood) ==
  LET combined == pct.num * 6 + aiLikelihood * 4 * pct.den IN
  IF combined >= 600 * pct.den THEN "high"
  ELSE IF combined >= 300 * pct.den THEN "medium"
  ELSE "low"

\* an explanation that is silent about the chunk cap
generateExplanationNoLimitNote(segments, wasLimited, totalChunks, processedChunks, hadUpstreamIssues) ==
  <<IF Len(segments) > 0 THEN "found_segments" ELSE "no_segments",
    "ai_summary", "risk_level">>
    \o (IF hadUpstreamIssues THEN <<"search_unavailable_note">> ELSE << >>)

\* the explanation is the sequence of its parts
generateExplanation(segments, wasLimited, totalChunks, processedChunks, hadUpstreamIssues) ==
  <<IF Len(segments) > 0 THEN "found_segments" ELSE "no_segments",
    "ai_summary", "risk_level">>
    \o (IF wasLimited /\ totalChunks # 0 /\ processedChunks # 0
          THEN <<"chunk_limit_note">> ELSE << >>)
    \o (IF hadUpstreamIssues THEN <<"search_unavailable_note">> ELSE << >>)

\* ------------------------------------------------------------------------
\* Text extraction (extractTextFromInput, normalizeText)
\* ------------------------------------------------------------------------
\* text field of the input: absent, not a string, whitespace only, a string
\* normalizing to fewer than MIN_TEXT_LENGTH characters, or a document
TextAbsent == [kind |-> "absent", len |-> 0]
TextFields ==
  {TextAbsent, [kind |-> "nonstring", len |-> 0], [kind |-> "blank", len |-> 0],
   [kind |-> "short", len |-> ShortLen]}
    \cup {[kind |-> "doc", len |-> l] : l \in DocLengths}

\* fileBuffer of the input: absent, a readable .txt, a .txt without text, a
\* .pdf the parser rejects, a file of an unsupported type
FileFields == {"absent", "txt", "empty_txt", "corrupt_pdf", "unsupported"}

Inputs ==
  {[shape |-> "null", text |-> TextAbsent, file |-> "absent"],
   [shape |-> "nonobject", text |-> TextAbsent, file |-> "absent"]}
    \cup {[shape |-> "object", text |-> t, file |-> "absent"] : t \in TextFields}
    \cup {[shape |-> "object", text |-> t, file |-> f] :
            t \in {x \in TextFields : x.len <= FileLen},
            f \in FileFields \ {"absent"}}

normalizeText(text) ==
  IF text.kind = "nonstring" THEN Throw(Err(<<"Invalid text input">>))
  ELSE IF text.len < MIN_TEXT_LENGTH THEN Throw(Err(<<"Text is too short">>))
  ELSE Ok(text.len)

extractTextFromInput(input) ==
  IF input.text.kind # "absent" THEN normalizeText(input.text)
  ELSE IF input.file # "absent" THEN
    CASE input.file = "txt" -> normalizeText([kind |-> "doc", len |-> FileLen])
      [] input.file = "empty_txt" -> Throw(Err(<<"No readable text">>))
      [] input.file = "corrupt_pdf" ->
           Throw(Err(<<"Failed to extract text from PDF">>))
      [] OTHER -> Throw(Err(<<"Unsupported file type">>))
  ELSE Throw(Err(<<"Either 'text' or 'fileBuffer' must be provided">>))

\* ------------------------------------------------------------------------
\* runPlagiarismPipeline: the wrapper that never throws
\* ------------------------------------------------------------------------
\* the promise of runPlagiarismPipeline: pending, or resolved with a
\* PipelineResult, or rejected with what was thrown
Failure(type, m) ==
  [settled |-> "resolved", ok |-> FALSE, report |-> << >>, errorType |-> type,
   message |-> m]

Success(report) ==
  [settled |-> "resolved", ok |-> TRUE, report |-> <<report>>, errorType |-> "",
   message |-> << >>]


hasText(input) == input.text.kind \in {"short", "doc"}
hasFile(input) == input.file # "absent"

\* the input checks that precede the delegation to checkPlagiarism
Validated ==
  [settled |-> "pending", ok |-> TRUE, report |-> << >>, errorType |-> "",
   message |-> << >>]
ValidateInput(input) ==
  IF input.shape # "object"
    THEN Failure("bad_request", <<"Invalid input">>)
  ELSE IF ~hasText(input) /\ ~hasFile(input)
    THEN Failure("bad_request", <<"Please provide either text or an uploaded document.">>)
  ELSE Validated

RECURSIVE RemoveFirst(_, _)
RemoveFirst(m, t) ==
  IF m = << >> THEN << >>
  ELSE IF Head(m) = t THEN Tail(m)
  ELSE <<Head(m)>> \o RemoveFirst(Tail(m), t)

ErrorTypeOf(raw) ==
  IF StartsWith(raw, "BAD_REQUEST") THEN "bad_request"
  ELSE IF StartsWith(raw, "EXTRACTION_ERROR") THEN "extraction_error"
  ELSE IF StartsWith(raw, "UPSTREAM_ERROR") THEN "upstream_error"
  ELSE "analysis_error"

StripPrefixes(raw) ==
  RemoveFirst(RemoveFirst(RemoveFirst(raw, "BAD_REQUEST"), "EXTRACTION_ERROR"),
              "UPSTREAM_ERROR")

\* a catch block that lets the exception through: the promise is rejected
PipelineCatchRethrows(e) ==
  [settled |-> "rejected", ok |-> FALSE, report |-> << >>, errorType |-> "",
   message |-> ErrorMessage(e)]

\* the catch block: String(err?.message || err?.toString() || "Unknown error")
PipelineCatch(e) ==
  LET raw == IF e.kind = "nullish" \/ (e.kind = "string" /\ e.msg = << >>)
               THEN <<"Unknown error">>
             ELSE IF e.msg = << >> THEN <<"Error">>
             ELSE e.msg
      message == StripPrefixes(raw)
  IN Failure(ErrorTypeOf(raw),
             IF message = << >> THEN <<"An unexpected error occurred during analysis.">>
             ELSE message)

\* the earlier wrapper: String(err?.message || "Unknown error")
PipelineCatchV1(e) ==
  LET raw == IF e.kind = "Error" /\ e.msg # << >> THEN e.msg
             ELSE <<"Unknown error">>
      message == StripPrefixes(raw)
  IN Failure(ErrorTypeOf(raw), IF message = << >> THEN raw ELSE message)

ValidateInputV1(input) ==
  IF input.shape # "object" \/ (~hasText(input) /\ ~hasFile(input))
    THEN Failure("bad_request", <<"Please provide either text or an uploaded document.">>)
  ELSE Validated

\* ------------------------------------------------------------------------
\* What an adapter call meets: the cache read and the service behaviour
\* ------------------------------------------------------------------------
SearchCalls ==
  {[read |-> rd, script |-> Steady([r |-> "ok", n |-> 0])] :
     rd \in SearchCacheReads \ {Miss}}
    \cup {[read |-> Miss, script |-> sc] : sc \in SearchScripts}

ScoreCalls ==
  {[read |-> rd, script |-> Steady([r |-> "noparse", v |-> 0])] :
     rd \in ScoreCacheReads \ {Miss}}
    \cup {[read |-> Miss, script |-> sc] : sc \in ScoreScripts}

\* how a service call ended, in the terms of the error taxonomy: the answer
\* to the last request sent
SearchFault(searchKey, call) ==
  LET r == searchWebForChunk(searchKey, call.read, call.script) IN
  IF ~searchKey THEN "config"
  ELSE IF r.calls = 0 THEN "none"
  ELSE LET last == RespAt(call.script, r.calls - 1).r IN
       CASE last \in {"http503", "netfail"} -> "fatal_search"
         [] last = "http429" -> "ratelimit"
         [] last = "badjson" -> "nonfatal"
         [] OTHER -> "none"

SourceFault(call) ==
  LET r == scoreChunkAgainstSource(call.read, call.script) IN
  IF r.calls = 0 THEN "none"
  ELSE LET last == RespAt(call.script, r.calls - 1).r IN
       CASE last \in {"err503", "str503"} -> "fatal_score"
         [] last \in {"noparse", "badjson"} -> "nonfatal"
         [] OTHER -> "none"

\* the sources are scored in order and a fatal failure ends the loop
ScoreFault(geminiKey, nSources, calls) ==
  LET top == Min(nSources, TOP_N_RESULTS)
      f(j) == SourceFault(calls[j])
  IN
  IF nSources = 0 \/ ~geminiKey THEN "none"
  ELSE IF \E j \in 1..top : f(j) = "fatal_score" THEN "fatal_score"
  ELSE IF \E j \in 1..top : f(j) = "nonfatal" THEN "nonfatal"
  ELSE "none"

AIFault(geminiKey, read, script) ==
  LET r == detectAIGeneratedText(geminiKey, read, script) IN
  IF ~geminiKey THEN "config"
  ELSE IF r.calls = 0 THEN "none"
  ELSE LET last == RespAt(script, r.calls - 1).r IN
       CASE last \in {"err503", "netfail"} -> "fatal"
         [] last \in {"noparse", "badjson"} -> "nonfatal"
         [] OTHER -> "none"

\* ------------------------------------------------------------------------
\* State
\* ------------------------------------------------------------------------
VARIABLES
  pc,            \* position of the run in runPlagiarismPipeline/checkPlagiarism
  runs,          \* runs started in this process
  input,         \* the input of the current run
  env,           \* process.env: which credentials are configured
  textLength,    \* fullText.length
  chunks,        \* chunkText(fullText)
  batchStart,    \* loop variable i of processChunksConcurrently
  status,        \* per chunk to process: state of its task in the batch
  found,         \* per chunk: number of search results being scored
  segments,      \* processChunksConcurrently: segments
  errors,        \* processChunksConcurrently: errors (their messages)
  unscoredCount, \* processChunksConcurrently: unscoredCount
  analysis,      \* checkPlagiarism: segments, unscoredCount, upstreamErrors, analysisStatus
  result,        \* the PipelineResult returned to the caller
  resultV1,      \* the PipelineResult of the earlier wrapper for the same run
  aiCache,       \* cache entries of the Authorship Classifier adapter
  fault,         \* per chunk: how its service calls ended (history)
  aiFault,       \* how the classifier call ended (history)
  aiFromCache    \* whether the classifier result was a cache hit (history)

pipelineVars ==
  <<pc, runs, input, env, textLength, chunks, batchStart, status, found,
    segments, errors, unscoredCount, analysis, result, resultV1, aiCache,
    fault, aiFault, aiFromCache>>

\* state of the components exercised on their own
VARIABLES
  retry,             \* one call of retryWithBackoff: its arguments and progress
  redisClient,       \* cache.ts: whether the module holds a Redis client
  lruCache,          \* cache.ts: the in-memory store, once created
  cacheInitialized,  \* cache.ts: the backend decision has been made
  cacheInitializing, \* cache.ts: the promise of the initialization
  redisServer,       \* REDIS_URL and the entries the Redis server holds
  cacheCalls,        \* per caller: the getCache/setCache/deleteCache call in progress
  cacheLog,          \* connections made and values last stored (history)
  chunking,          \* one call of chunkText: its argument and result
  pureCall,          \* one call of a function exercised on its own
  request,           \* one request to the check-plagiarism handler
  keyed              \* what the adapters stored under their cache keys, and the last lookup

retryVars == <<retry>>

cacheVars ==
  <<redisClient, lruCache, cacheInitialized, cacheInitializing, redisServer,
    cacheCalls, cacheLog>>

chunkVars == <<chunking>>

callVars == <<pureCall>>

requestVars == <<request>>

keyVars == <<keyed>>

unitVars == <<retryVars, cacheVars, chunkVars, callVars, requestVars, keyVars>>

vars == <<pipelineVars, unitVars>>

\* no call of retryWithBackoff is being followed
RetryIdle ==
  [fn |-> << >>, resp |-> << >>, maxRetries |-> 0, attempt |-> 0,
   invocations |-> 0, sleeps |-> 0, pc |-> "idle", outcome |-> Ok(0)]

RetryAtRest ==
  /\ retry = RetryIdle

\* cache.ts as imported, no REDIS_URL, no caller
CacheAtRest ==
  /\ redisClient = FALSE
  /\ lruCache = [exists |-> FALSE, items |-> << >>]
  /\ cacheInitialized = FALSE
  /\ cacheInitializing = "null"
  /\ redisServer = [url |-> FALSE, data |-> << >>]
  /\ cacheCalls = << >>
  /\ cacheLog = [calls |-> 0, connects |-> 0, failed |-> FALSE,
                 expected |-> << >>, stale |-> << >>]

\* no call of chunkText is being followed
ChunkAtRest ==
  /\ chunking = [pc |-> "idle", text |-> << >>, chunks |-> << >>]

\* no function is being called on its own
CallAtRest ==
  /\ pureCall = [pc |-> "idle"]

\* no request has reached the handler
RequestAtRest ==
  /\ request = [pc |-> "idle"]

\* no adapter is being followed through its cache
KeysAtRest ==
  /\ keyed = [pc |-> "idle"]

UnitsIdle ==
  /\ RetryAtRest
  /\ CacheAtRest
  /\ ChunkAtRest
  /\ CallAtRest
  /\ RequestAtRest
  /\ KeysAtRest

Envs == [searchKey : BOOLEAN, geminiKey : BOOLEAN]

AIKeys == {getAICacheKey(l) : l \in DocLengths \cup {FileLen}}

NoResult ==
  [settled |-> "pending", ok |-> FALSE, report |-> << >>, errorType |-> "",
   message |-> << >>]

NoAnalysis ==
  [segments |-> << >>, unscoredCount |-> 0, upstreamErrors |-> << >>,
   analysisStatus |-> "success"]

totalChunks == Len(chunks)
chunksToProcess == SubSeq(chunks, 1, Min(Len(chunks), MAX_CHUNKS_TO_PROCESS))
wasLimited == Len(chunksToProcess) < totalChunks

\* a join that waits for the first task of the batch only
BatchFirstOnly(i) == {c \in 1..Len(chunksToProcess) : c = i + 1}

\* chunks.slice(i, i + MAX_CONCURRENT_CHUNKS), as positions in chunksToProcess
Batch(i) == {c \in 1..Len(chunksToProcess) : c > i /\ c <= i + MAX_CONCURRENT_CHUNKS}

PipelineInit ==
  /\ pc = "idle"
  /\ runs = 0
  /\ input = [shape |-> "null", text |-> TextAbsent, file |-> "absent"]
  /\ env \in Envs
  /\ textLength = 0
  /\ chunks = << >>
  /\ batchStart = 0
  /\ status = << >>
  /\ found = << >>
  /\ segments = << >>
  /\ errors = << >>
  /\ unscoredCount = 0
  /\ analysis = NoAnalysis
  /\ result = NoResult
  /\ resultV1 = NoResult
  /\ aiCache = [k \in AIKeys |-> << >>]
  /\ fault = << >>
  /\ aiFault = "none"
  /\ aiFromCache = FALSE

Init ==
  /\ PipelineInit
  /\ UnitsIdle

\* ------------------------------------------------------------------------
\* checkPlagiarism: from the classifier call to the report
\* ------------------------------------------------------------------------
hadUpstreamIssues(upstreamErrors) ==
  \E i \in 1..Len(upstreamErrors) :
    Includes(upstreamErrors[i], "UPSTREAM_WARNING")
      \/ Includes(upstreamErrors[i], "UPSTREAM_ERROR")

\* aiOutcome is what detectAIGeneratedText returned or threw
buildReport(len, an, aiOutcome, limited, total, processed) ==
  LET failed == aiOutcome.kind = "throw"
      ai == IF failed THEN UncertainDefault ELSE aiOutcome.value
      analysisStatus ==
        IF failed /\ an.analysisStatus = "success" THEN "partial_success"
        ELSE an.analysisStatus
      plagiarismPercentage == calculatePlagiarismPercentage(len, an.segments)
      riskLevel == determineRiskLevel(plagiarismPercentage, ai.likelihood)
  IN
  [normalizedTextLength |-> len,
   plagiarismPercentage |-> plagiarismPercentage,
   riskLevel |-> riskLevel,
   suspiciousSegments |-> an.segments,
   aiGeneratedLikelihood |-> ai.likelihood,
   aiVerdict |-> ai.verdict,
   explanation |-> generateExplanation(an.segments, limited, total, processed,
                                       hadUpstreamIssues(an.upstreamErrors)),
   analysisStatus |-> analysisStatus]

\* ------------------------------------------------------------------------
\* Actions
\* ------------------------------------------------------------------------
\* an exception leaves checkPlagiarism and is caught by the wrapper
Escapes(e) ==
  /\ pc' = "done"
  /\ result' = PipelineCatch(e)
  /\ resultV1' = PipelineCatchV1(e)

\* runPlagiarismPipeline is called: input validation
StartRun ==
  /\ pc \in {"idle", "done"}
  /\ runs < MaxRuns
  /\ runs' = runs + 1
  /\ \E in \in Inputs :
       /\ input' = in
       /\ IF ValidateInput(in).ok
            THEN pc' = "extracting" /\ result' = NoResult /\ resultV1' = NoResult
            ELSE /\ pc' = "done"
                 /\ result' = ValidateInput(in)
                 /\ resultV1' = ValidateInputV1(in)
  /\ textLength' = 0
  /\ chunks' = << >>
  /\ batchStart' = 0
  /\ status' = << >>
  /\ found' = << >>
  /\ segments' = << >>
  /\ errors' = << >>
  /\ unscoredCount' = 0
  /\ analysis' = NoAnalysis
  /\ fault' = << >>
  /\ aiFault' = "none"
  /\ aiFromCache' = FALSE
  /\ UNCHANGED <<env, aiCache>>
  /\ UNCHANGED unitVars

\* extractTextFromInput settles; on success the text is chunked and the
\* first batch is started
ExtractDone ==
  /\ pc = "extracting"
  /\ LET o == extractTextFromInput(input) IN
     IF o.kind = "throw"
       THEN /\ LET m == ErrorMessage(o.error) IN
               Escapes(IF Includes(m, "BAD_REQUEST") \/ Includes(m, "EXTRACTION_ERROR")
                         THEN o.error
                         ELSE Err(<<"EXTRACTION_ERROR">> \o m))
            /\ UNCHANGED <<textLength, chunks, status, found, fault>>
       ELSE LET cs == chunkText(o.value)
                n == Min(Len(cs), MAX_CHUNKS_TO_PROCESS)
            IN
            /\ textLength' = o.value
            /\ chunks' = cs
            /\ status' = [c \in 1..n |->
                            IF c <= MAX_CONCURRENT_CHUNKS THEN "searching" ELSE "pending"]
            /\ found' = [c \in 1..n |-> 0]
            /\ fault' = [c \in 1..n |-> "none"]
            /\ pc' = "analyzing"
            /\ UNCHANGED <<result, resultV1>>
  /\ UNCHANGED <<runs, input, env, batchStart, segments, errors, unscoredCount,
                 analysis, aiCache, aiFault, aiFromCache>>
  /\ UNCHANGED unitVars

\* a handler that re-throws configuration errors only
isCriticalChunkErrorBadRequestOnly(m) ==
  Includes(m, "BAD_REQUEST")

isCriticalChunkError(m) ==
  Includes(m, "BAD_REQUEST") \/ Includes(m, "UPSTREAM_ERROR")

\* the catch block of a chunk's task; a re-thrown error rejects Promise.all,
\* which ends processChunksConcurrently and lands in checkPlagiarism's catch
ChunkCatch(c, e) ==
  LET m == IF e.kind = "Error" THEN e.msg
           ELSE IF e.kind = "nullish" \/ e.msg = << >> THEN <<"Unknown error">>
           ELSE e.msg
  IN
  /\ errors' = Append(errors, m)
  /\ IF isCriticalChunkError(m)
       THEN /\ status' = [status EXCEPT ![c] = "rejected"]
            /\ UNCHANGED unscoredCount
            /\ IF pc # "analyzing"
                 THEN UNCHANGED <<pc, result, resultV1, analysis>>
               ELSE IF Len(analysis.segments) > 0
                 THEN /\ analysis' = [analysis EXCEPT !.analysisStatus = "partial_success"]
                      /\ pc' = "classifying"
                      /\ UNCHANGED <<result, resultV1>>
               ELSE /\ analysis' = [analysis EXCEPT !.analysisStatus = "error"]
                    /\ Escapes(Err(<<"UPSTREAM_ERROR">> \o m))
       ELSE /\ status' = [status EXCEPT ![c] = "fulfilled"]
            /\ unscoredCount' =
                 IF Includes(m, "UPSTREAM_WARNING") THEN unscoredCount
                 ELSE unscoredCount + 1
            /\ UNCHANGED <<pc, result, resultV1, analysis>>

\* searchWebForChunk settles for chunk c
SearchDone(c) ==
  /\ c \in DOMAIN status
  /\ status[c] = "searching"
  /\ \E call \in SearchCalls :
       LET o == searchWebForChunk(env.searchKey, call.read, call.script).outcome IN
       /\ fault' = [fault EXCEPT ![c] = SearchFault(env.searchKey, call)]
       /\ IF o.kind = "throw"
            THEN ChunkCatch(c, o.error) /\ UNCHANGED found
          ELSE IF o.value = 0 \/ ~env.geminiKey
            THEN /\ status' = [status EXCEPT ![c] = "fulfilled"]
                 /\ UNCHANGED <<found, errors, unscoredCount, pc, result,
                                resultV1, analysis>>
          ELSE /\ status' = [status EXCEPT ![c] = "scoring"]
               /\ found' = [found EXCEPT ![c] = o.value]
               /\ UNCHANGED <<errors, unscoredCount, pc, result, resultV1, analysis>>
  /\ UNCHANGED <<runs, input, env, textLength, chunks, batchStart, segments,
                 aiCache, aiFault, aiFromCache>>
  /\ UNCHANGED unitVars

\* if (suspicious && matches.length > 0) segments.push({...})
SegmentPushed(segs, chunk, scored) ==
  IF scored.suspicious /\ Len(scored.matches) > 0
    THEN Append(segs,
           [startIndex |-> chunk.startIndex,
            endIndex |-> chunk.endIndex,
            similarityScore |-> scored.similarityScore,
            sources |-> scored.matches])
    ELSE segs

\* scoreChunkAgainstSources settles for chunk c
ScoreDone(c) ==
  /\ c \in DOMAIN status
  /\ status[c] = "scoring"
  /\ \E calls \in [1..Min(found[c], TOP_N_RESULTS) -> ScoreCalls] :
       LET reads == [j \in DOMAIN calls |-> calls[j].read]
           scripts == [j \in DOMAIN calls |-> calls[j].script]
           o == scoreChunkAgainstSources(env.geminiKey, found[c], reads, scripts)
       IN
       /\ fault' = [fault EXCEPT ![c] = ScoreFault(env.geminiKey, found[c], calls)]
       /\ IF o.kind = "throw"
            THEN ChunkCatch(c, o.error) /\ UNCHANGED segments
            ELSE /\ status' = [status EXCEPT ![c] = "fulfilled"]
                 /\ segments' = SegmentPushed(segments, chunks[c], o.value)
                 /\ UNCHANGED <<errors, unscoredCount, pc, result, resultV1, analysis>>
  /\ UNCHANGED <<runs, input, env, textLength, chunks, batchStart, found,
                 aiCache, aiFault, aiFromCache>>
  /\ UNCHANGED unitVars

\* Promise.all of the current batch resolves: pace before the next batch, or
\* sort the segments and return to checkPlagiarism after the last one
BatchJoin ==
  /\ pc = "analyzing"
  /\ \A c \in Batch(batchStart) : status[c] = "fulfilled"
  /\ IF batchStart + MAX_CONCURRENT_CHUNKS < Len(chunksToProcess)
       THEN /\ pc' = "pacing"
            /\ UNCHANGED <<segments, analysis>>
       ELSE /\ segments' = SortByStart(segments)
            /\ analysis' =
                 [segments |-> SortByStart(segments),
                  unscoredCount |-> unscoredCount,
                  upstreamErrors |-> errors,
                  analysisStatus |->
                    IF unscoredCount > 0 \/ wasLimited \/ Len(errors) > 0
                      THEN "partial_success" ELSE "success"]
            /\ pc' = "classifying"
  /\ UNCHANGED <<runs, input, env, textLength, chunks, batchStart, status, found,
                 errors, unscoredCount, result, resultV1, aiCache, fault, aiFault,
                 aiFromCache>>
  /\ UNCHANGED unitVars

\* the pacing delay elapses and the next batch is started
PacingDone ==
  /\ pc = "pacing"
  /\ batchStart' = batchStart + MAX_CONCURRENT_CHUNKS
  /\ status' = [c \in DOMAIN status |->
                  IF c \in Batch(batchStart + MAX_CONCURRENT_CHUNKS)
                    THEN "searching" ELSE status[c]]
  /\ pc' = "analyzing"
  /\ UNCHANGED <<runs, input, env, textLength, chunks, found, segments, errors,
                 unscoredCount, analysis, result, resultV1, aiCache, fault,
                 aiFault, aiFromCache>>
  /\ UNCHANGED unitVars

\* what the classifier adapter can meet for the text of this run
AICalls ==
  {[read |-> Hit(aiCache[getAICacheKey(textLength)][i]),
    script |-> Steady([r |-> "noparse", likelihood |-> 0, verdict |-> "bogus"])] :
     i \in 1..Len(aiCache[getAICacheKey(textLength)])}
    \cup {[read |-> AIMiss, script |-> sc] : sc \in AIScripts}

\* detectAIGeneratedText settles; the report is built and returned
ClassifyDone ==
  /\ pc = "classifying"
  /\ \E call \in AICalls :
       LET r == detectAIGeneratedText(env.geminiKey, call.read, call.script)
           report == buildReport(textLength, analysis, r.outcome, wasLimited,
                                 totalChunks, Len(chunksToProcess))
       IN
       /\ aiCache' = IF r.store
                       THEN [aiCache EXCEPT ![getAICacheKey(textLength)] = <<r.outcome.value>>]
                       ELSE aiCache
       /\ aiFault' = AIFault(env.geminiKey, call.read, call.script)
       /\ aiFromCache' = (env.geminiKey /\ call.read.hit)
       /\ analysis' = [analysis EXCEPT !.analysisStatus = report.analysisStatus]
       /\ result' = Success(report)
       /\ resultV1' = Success(report)
  /\ pc' = "done"
  /\ UNCHANGED <<runs, input, env, textLength, chunks, batchStart, status, found,
                 segments, errors, unscoredCount, fault>>
  /\ UNCHANGED unitVars

Next ==
  \/ StartRun
  \/ ExtractDone
  \/ \E c \in 1..MAX_CHUNKS_TO_PROCESS : SearchDone(c)
  \/ \E c \in 1..MAX_CHUNKS_TO_PROCESS : ScoreDone(c)
  \/ BatchJoin
  \/ PacingDone
  \/ ClassifyDone

Spec == Init /\ [][Next]_vars

\* ------------------------------------------------------------------------
\* retryWithBackoff, step by step
\* ------------------------------------------------------------------------
\* the pipeline is at rest while a component is exercised on its own
PipelineAtRest ==
  /\ PipelineInit
  /\ env = [searchKey |-> TRUE, geminiKey |-> TRUE]

\* the functions the adapters hand to retryWithBackoff: per invocation, the
\* service's answer and how the invocation ends
RetryArguments(maxRetries) ==
  {[resp |-> [a \in 1..(maxRetries + 1) |-> RespAt(sc, a - 1).r],
    fn |-> [a \in 1..(maxRetries + 1) |-> SearchAttempt(RespAt(sc, a - 1))]] :
     sc \in SearchScripts}
    \cup
  {[resp |-> [a \in 1..(maxRetries + 1) |-> RespAt(sc, a - 1).r],
    fn |-> [a \in 1..(maxRetries + 1) |-> ScoreAttempt(RespAt(sc, a - 1))]] :
     sc \in ScoreScripts}

RetryInit ==
  /\ PipelineAtRest
  /\ CacheAtRest
  /\ ChunkAtRest
  /\ CallAtRest
  /\ RequestAtRest
  /\ KeysAtRest
  /\ \E maxRetries \in 0..MaxRetriesArg :
       \E arg \in RetryArguments(maxRetries) :
         retry = [fn |-> arg.fn, resp |-> arg.resp, maxRetries |-> maxRetries,
                  attempt |-> 0, invocations |-> 0, sleeps |-> 0,
                  pc |-> "calling", outcome |-> Ok(0)]

\* an off-by-one test for the last attempt
LastAttemptEarly(attempt, maxRetries) ==
  attempt + 1 >= maxRetries

\* if (attempt === maxRetries) throw error
LastAttempt(attempt, maxRetries) ==
  attempt = maxRetries

\* one round of the loop: fn is invoked; its result is returned, or its error
\* is thrown (last attempt, or not retryable), or a delay is started
RetryInvoke ==
  /\ retry.pc = "calling"
  /\ LET o == retry.fn[retry.attempt + 1]
         called == [retry EXCEPT !.invocations = @ + 1, !.outcome = o]
     IN
     retry' =
       IF o.kind = "ok" THEN [called EXCEPT !.pc = "returned"]
       ELSE IF LastAttempt(retry.attempt, retry.maxRetries)
         THEN [called EXCEPT !.pc = "thrown"]
       ELSE IF ~IsRetryable(ErrorMessage(o.error))
         THEN [called EXCEPT !.pc = "thrown"]
       ELSE [called EXCEPT !.pc = "sleeping"]
  /\ UNCHANGED <<pipelineVars, cacheVars, chunkVars, callVars, requestVars, keyVars>>

\* the backoff delay elapses and the loop goes to the next attempt
RetrySleep ==
  /\ retry.pc = "sleeping"
  /\ retry' = [retry EXCEPT !.sleeps = @ + 1, !.attempt = @ + 1, !.pc = "calling"]
  /\ UNCHANGED <<pipelineVars, cacheVars, chunkVars, callVars, requestVars, keyVars>>

RetryNext ==
  \/ RetryInvoke
  \/ RetrySleep

SpecRetry == RetryInit /\ [][RetryNext]_vars

\* ------------------------------------------------------------------------
\* cache.ts: getCache, setCache, deleteCache over Redis or the LRU store
\* ------------------------------------------------------------------------
Callers == {1, 2}
Keys == {"k1", "k2"}

\* JavaScript values: null, and the values callers store
JsNull == [t |-> "null", n |-> 0]
JsNumber(n) == [t |-> "num", n |-> n]
JsEmptyList == [t |-> "list", n |-> 0]
Values == {JsNumber(0), JsNumber(7), JsEmptyList}

\* JSON.stringify and JSON.parse, on texts as sequences of characters
JSONstringify(v) ==
  CASE v.t = "list" -> <<"[", "]">>
    [] v.t = "null" -> <<"n", "u", "l", "l">>
    [] OTHER -> IF v.n = 0 THEN <<"0">> ELSE <<"7">>

JSONparse(text) ==
  CASE text[1] = "[" -> JsEmptyList
    [] text[1] = "n" -> JsNull
    [] text[1] = "0" -> JsNumber(0)
    [] OTHER -> JsNumber(7)

\* what redisClient.get hands back: the stored string, or null for no entry
RedisAbsent == [present |-> FALSE, text |-> << >>]
RedisEntry(text) == [present |-> TRUE, text |-> text]

\* `value ? ... : null' on a string or null
TruthyString(entry) ==
  entry.present /\ Len(entry.text) > 0

LruAbsent == [present |-> FALSE, value |-> JsNull]
LruEntry(v) == [present |-> TRUE, value |-> v]

\* new LRUCache({ max: 100, ttl: 24h })
NewLru == [exists |-> TRUE, items |-> [k \in Keys |-> LruAbsent]]
NoLru == [exists |-> FALSE, items |-> << >>]

\* a lookup that drops falsy values
LruGetOrNull(lru, key) ==
  IF lru.items[key].present /\ lru.items[key].value \notin {JsNumber(0), JsNull}
    THEN lru.items[key].value
    ELSE JsNull

\* lruCache.get(key) ?? null
LruGet(lru, key) ==
  IF lru.items[key].present THEN lru.items[key].value ELSE JsNull

\* getCache after initialization; commandOk tells whether the Redis command
\* succeeds
getCache(client, lru, data, key, commandOk) ==
  IF client /\ commandOk
    THEN [ret |-> IF TruthyString(data[key]) THEN JSONparse(data[key].text) ELSE JsNull,
          backend |-> "redis", failed |-> FALSE]
  ELSE IF lru.exists
    THEN [ret |-> LruGet(lru, key), backend |-> "lru", failed |-> client]
  ELSE [ret |-> JsNull, backend |-> "none", failed |-> client]

\* setCache after initialization: the stores it leaves
setCache(client, lru, data, key, value, commandOk) ==
  IF client /\ commandOk
    THEN [data |-> [data EXCEPT ![key] = RedisEntry(JSONstringify(value))],
          lru |-> lru, backend |-> "redis", failed |-> FALSE]
  ELSE IF lru.exists
    THEN [data |-> data,
          lru |-> [lru EXCEPT !.items[key] = LruEntry(value)],
          backend |-> "lru", failed |-> client]
  ELSE [data |-> data, lru |-> lru, backend |-> "none", failed |-> client]

\* deleteCache after initialization: Redis first, then the LRU store as well
deleteCache(client, lru, data, key, commandOk) ==
  [data |-> IF client /\ commandOk THEN [data EXCEPT ![key] = RedisAbsent] ELSE data,
   lru |-> IF lru.exists THEN [lru EXCEPT !.items[key] = LruAbsent] ELSE lru,
   backend |-> IF client /\ commandOk THEN "redis"
               ELSE IF lru.exists THEN "lru" ELSE "none",
   failed |-> client /\ ~commandOk]

IdleCall ==
  [pc |-> "idle", op |-> "get", key |-> "k1", value |-> JsNull, ret |-> JsNull,
   want |-> JsNull, stale |-> FALSE, backend |-> "none", failed |-> FALSE]

CacheInit ==
  /\ PipelineAtRest
  /\ RetryAtRest
  /\ ChunkAtRest
  /\ CallAtRest
  /\ RequestAtRest
  /\ KeysAtRest
  /\ redisClient = FALSE
  /\ lruCache = NoLru
  /\ cacheInitialized = FALSE
  /\ cacheInitializing = "null"
  /\ redisServer \in {[url |-> u, data |-> [k \in Keys |-> RedisAbsent]] : u \in BOOLEAN}
  /\ cacheCalls = [c \in Callers |-> IdleCall]
  /\ cacheLog = [calls |-> 0, connects |-> 0, failed |-> FALSE,
                 expected |-> [k \in Keys |-> JsNull],
                 stale |-> [k \in Keys |-> FALSE]]

CacheRequests ==
  {[op |-> "get", key |-> k, value |-> JsNull] : k \in Keys}
    \cup {[op |-> "delete", key |-> k, value |-> JsNull] : k \in Keys}
    \cup {[op |-> "set", key |-> k, value |-> v] : k \in Keys, v \in Values}

\* an initialization that never notices one in progress
InitializationInFlightNever(initializing) ==
  initializing = "none"

\* if (cacheInitializing) { await cacheInitializing; return; }
InitializationInFlight(initializing) ==
  initializing # "null"

\* a caller enters getCache, setCache or deleteCache; initializeCache runs to
\* its first await
CacheCall(c) ==
  /\ cacheCalls[c].pc \in {"idle", "returned"}
  /\ cacheLog.calls < MaxCalls
  /\ \E q \in CacheRequests :
       LET call == [IdleCall EXCEPT !.op = q.op, !.key = q.key, !.value = q.value]
       IN
       IF cacheInitialized
         THEN /\ cacheCalls' = [cacheCalls EXCEPT ![c] = [call EXCEPT !.pc = "ready"]]
              /\ UNCHANGED <<lruCache, cacheInitialized, cacheInitializing>>
       ELSE IF InitializationInFlight(cacheInitializing)
         THEN /\ cacheCalls' = [cacheCalls EXCEPT ![c] = [call EXCEPT !.pc = "waiting"]]
              /\ UNCHANGED <<lruCache, cacheInitialized, cacheInitializing>>
       ELSE IF redisServer.url
         THEN /\ cacheCalls' = [cacheCalls EXCEPT ![c] = [call EXCEPT !.pc = "importing"]]
              /\ cacheInitializing' = "pending"
              /\ UNCHANGED <<lruCache, cacheInitialized>>
       ELSE /\ cacheCalls' = [cacheCalls EXCEPT ![c] = [call EXCEPT !.pc = "ready"]]
            /\ lruCache' = NewLru
            /\ cacheInitialized' = TRUE
            /\ cacheInitializing' = "settled"
  /\ cacheLog' = [cacheLog EXCEPT !.calls = @ + 1]
  /\ UNCHANGED <<redisClient, redisServer>>
  /\ UNCHANGED <<pipelineVars, retryVars, chunkVars, callVars, requestVars, keyVars>>

\* the import of ioredis settles: the client is created and pinged, or the
\* failure is caught and the LRU store is created
ImportDone(c) ==
  /\ cacheCalls[c].pc = "importing"
  /\ \E loaded \in BOOLEAN :
       IF loaded
         THEN /\ redisClient' = TRUE
              /\ cacheLog' = [cacheLog EXCEPT !.connects = @ + 1]
              /\ cacheCalls' = [cacheCalls EXCEPT ![c].pc = "pinging"]
              /\ UNCHANGED <<lruCache, cacheInitialized, cacheInitializing>>
         ELSE /\ redisClient' = FALSE
              /\ lruCache' = NewLru
              /\ cacheInitialized' = TRUE
              /\ cacheInitializing' = "null"
              /\ cacheLog' = [cacheLog EXCEPT !.failed = TRUE]
              /\ cacheCalls' = [cacheCalls EXCEPT ![c].pc = "ready"]
  /\ UNCHANGED redisServer
  /\ UNCHANGED <<pipelineVars, retryVars, chunkVars, callVars, requestVars, keyVars>>

\* the ping is answered, or fails or times out
PingDone(c) ==
  /\ cacheCalls[c].pc = "pinging"
  /\ \E answered \in BOOLEAN :
       IF answered
         THEN /\ UNCHANGED <<redisClient, lruCache, cacheLog>>
         ELSE /\ redisClient' = FALSE
              /\ lruCache' = NewLru
              /\ cacheLog' = [cacheLog EXCEPT !.failed = TRUE]
  /\ cacheInitialized' = TRUE
  /\ cacheInitializing' = "null"
  /\ cacheCalls' = [cacheCalls EXCEPT ![c].pc = "ready"]
  /\ UNCHANGED redisServer
  /\ UNCHANGED <<pipelineVars, retryVars, chunkVars, callVars, requestVars, keyVars>>

\* a caller that awaited the initialization in progress goes on
Resume(c) ==
  /\ cacheCalls[c].pc = "waiting"
  /\ cacheInitialized
  /\ cacheCalls' = [cacheCalls EXCEPT ![c].pc = "ready"]
  /\ UNCHANGED <<redisClient, lruCache, cacheInitialized, cacheInitializing,
                 redisServer, cacheLog>>
  /\ UNCHANGED <<pipelineVars, retryVars, chunkVars, callVars, requestVars, keyVars>>

\* the body of getCache, setCache or deleteCache after initializeCache
BackendOp(c) ==
  /\ cacheCalls[c].pc = "ready"
  /\ \E commandOk \in BOOLEAN :
       LET call == cacheCalls[c]
           k == call.key
           g == getCache(redisClient, lruCache, redisServer.data, k, commandOk)
           w == IF call.op = "set"
                  THEN setCache(redisClient, lruCache, redisServer.data, k,
                                call.value, commandOk)
                  ELSE deleteCache(redisClient, lruCache, redisServer.data, k,
                                   commandOk)
       IN
       IF call.op = "get"
         THEN /\ cacheCalls' =
                   [cacheCalls EXCEPT ![c] =
                      [call EXCEPT !.pc = "returned", !.ret = g.ret,
                                   !.want = cacheLog.expected[k],
                                   !.stale = cacheLog.stale[k],
                                   !.backend = g.backend, !.failed = g.failed]]
              /\ UNCHANGED <<lruCache, redisServer, cacheLog>>
         ELSE /\ cacheCalls' =
                   [cacheCalls EXCEPT ![c] =
                      [call EXCEPT !.pc = "returned", !.backend = w.backend,
                                   !.failed = w.failed]]
              /\ lruCache' = w.lru
              /\ redisServer' = [redisServer EXCEPT !.data = w.data]
              /\ cacheLog' =
                   [cacheLog EXCEPT
                      !.expected[k] = IF call.op = "set" THEN call.value ELSE JsNull,
                      !.stale[k] = w.failed]
  /\ UNCHANGED <<redisClient, cacheInitialized, cacheInitializing>>
  /\ UNCHANGED <<pipelineVars, retryVars, chunkVars, callVars, requestVars, keyVars>>

\* the time to live of an entry runs out
Expire(k) ==
  /\ \/ redisClient /\ redisServer.data[k].present
     \/ lruCache.exists /\ lruCache.items[k].present
  /\ redisServer' = [redisServer EXCEPT !.data[k] = RedisAbsent]
  /\ lruCache' = IF lruCache.exists
                   THEN [lruCache EXCEPT !.items[k] = LruAbsent]
                   ELSE lruCache
  /\ cacheLog' = [cacheLog EXCEPT !.expected[k] = JsNull, !.stale[k] = FALSE]
  /\ UNCHANGED <<redisClient, cacheInitialized, cacheInitializing, cacheCalls>>
  /\ UNCHANGED <<pipelineVars, retryVars, chunkVars, callVars, requestVars, keyVars>>

CacheNext ==
  \/ \E c \in Callers : CacheCall(c)
  \/ \E c \in Callers : ImportDone(c)
  \/ \E c \in Callers : PingDone(c)
  \/ \E c \in Callers : Resume(c)
  \/ \E c \in Callers : BackendOp(c)
  \/ \E k \in Keys : Expire(k)

SpecCache == CacheInit /\ [][CacheNext]_vars

\* ------------------------------------------------------------------------
\* chunkText on texts, with the text of every chunk
\* ------------------------------------------------------------------------
\* the character at a position of the texts submitted
CharAt(i) == (i * i) % 7

TextOfLength(l) == [i \in 1..l |-> CharAt(i)]

\* text.slice(startIndex, endIndex), positions counted from 0
Slice(text, startIndex, endIndex) ==
  SubSeq(text, startIndex + 1, endIndex)

\* the chunks of chunkText(text), each with its text
TextChunks(text) ==
  LET spans == chunkText(Len(text))
  IN [i \in 1..Len(spans) |->
        [text |-> Slice(text, spans[i].startIndex, spans[i].endIndex),
         startIndex |-> spans[i].startIndex,
         endIndex |-> spans[i].endIndex]]

ChunkInit ==
  /\ PipelineAtRest
  /\ RetryAtRest
  /\ CacheAtRest
  /\ CallAtRest
  /\ RequestAtRest
  /\ KeysAtRest
  /\ chunking \in {[pc |-> "called", text |-> TextOfLength(l), chunks |-> << >>] :
                     l \in 0..MaxTextLength}

ChunkTextReturn ==
  /\ chunking.pc = "called"
  /\ chunking' = [chunking EXCEPT !.pc = "returned",
                                  !.chunks = TextChunks(chunking.text)]
  /\ UNCHANGED <<pipelineVars, retryVars, cacheVars, callVars, requestVars, keyVars>>

ChunkNext ==
  \/ ChunkTextReturn

SpecChunk == ChunkInit /\ [][ChunkNext]_vars

\* ------------------------------------------------------------------------
\* the loop of chunkText, one iteration at a time, for any configuration
\* ------------------------------------------------------------------------
\* "advance" is the loop of plagiarismChecker.ts (startIndex += CHUNK_SIZE -
\* CHUNK_OVERLAP), "rewind" the loop of part_019 and of chunking.test.ts
\* (startIndex = endIndex - overlap)
LoopVariants == {"advance", "rewind"}

LoopConfigs ==
  {[chunkSize |-> cs, overlap |-> ov] : cs \in 1..MaxChunkSize, ov \in 0..(MaxChunkSize + 1)}
    \cup {[chunkSize |-> CHUNK_SIZE, overlap |-> CHUNK_OVERLAP]}

LoopTextLengths == (0..MaxLoopText) \cup {100, 1400}

ChunkLoopInit ==
  /\ PipelineAtRest
  /\ RetryAtRest
  /\ CacheAtRest
  /\ CallAtRest
  /\ RequestAtRest
  /\ KeysAtRest
  /\ chunking \in
       {[pc |-> "loop", variant |-> v, chunkSize |-> c.chunkSize,
         overlap |-> c.overlap, textLength |-> l, startIndex |-> 0,
         endIndex |-> 0, pushed |-> 0] :
          v \in LoopVariants, c \in LoopConfigs, l \in LoopTextLengths}

\* the start of the next window
NextStart(variant, startIndex, endIndex, chunkSize, overlap) ==
  IF variant = "advance" THEN startIndex + (chunkSize - overlap)
  ELSE endIndex - overlap

\* the test that leaves the loop early
LoopBreaks(variant, startIndex, endIndex, len) ==
  IF variant = "advance" THEN endIndex = startIndex
  ELSE startIndex >= len

\* the while test fails and chunkText returns
ChunkLoopExit ==
  /\ chunking.pc = "loop"
  /\ ~(chunking.startIndex < chunking.textLength)
  /\ chunking' = [chunking EXCEPT !.pc = "returned"]
  /\ UNCHANGED <<pipelineVars, retryVars, cacheVars, callVars, requestVars, keyVars>>

\* the while test holds and the body is entered
ChunkLoopEnter ==
  /\ chunking.pc = "loop"
  /\ chunking.startIndex < chunking.textLength
  /\ chunking' = [chunking EXCEPT !.pc = "body"]
  /\ UNCHANGED <<pipelineVars, retryVars, cacheVars, callVars, requestVars, keyVars>>

\* the body: a chunk is pushed and startIndex is moved.  The count of
\* chunks and the distance of startIndex below 0 are kept up to a limit past
\* which the loop no longer tells them apart
ChunkLoopIterate ==
  /\ chunking.pc = "body"
  /\ LET c == chunking
         endIndex == Min(c.startIndex + c.chunkSize, c.textLength)
         next == NextStart(c.variant, c.startIndex, endIndex, c.chunkSize, c.overlap)
         kept == Max(next, 0 - (c.chunkSize + c.overlap))
     IN
     chunking' =
       [c EXCEPT !.endIndex = endIndex,
                 !.pushed = Min(c.pushed + 1, MaxChunksCounted),
                 !.startIndex = kept,
                 !.pc = IF LoopBreaks(c.variant, next, endIndex, c.textLength)
                          THEN "returned" ELSE "loop"]
  /\ UNCHANGED <<pipelineVars, retryVars, cacheVars, callVars, requestVars, keyVars>>

ChunkLoopNext ==
  \/ ChunkLoopExit
  \/ ChunkLoopEnter
  \/ ChunkLoopIterate

\* chunkText is synchronous: once called, its loop keeps running
SpecChunkLoop == ChunkLoopInit /\ [][ChunkLoopNext]_vars /\ WF_vars(ChunkLoopNext)

\* ------------------------------------------------------------------------
\* functions called on their own
\* ------------------------------------------------------------------------
\* normalizeText of part_022: the normalized text is cut at MAX_TEXT_LENGTH.
\* A text is given by the length of its normalized form, as for normalizeText
normalizeTextCapped(text) ==
  IF text.kind = "nonstring" THEN Throw(Err(<<"Invalid text input">>))
  ELSE IF text.len < MIN_TEXT_LENGTH THEN Throw(Err(<<"Text is too short">>))
  ELSE Ok(Min(text.len, MAX_TEXT_LENGTH))

\* generateExplanation of part_019: if (textLength > 200_000) the note on
\* truncation is pushed
TruncationNote(len) ==
  len > MAX_TEXT_LENGTH

\* the texts handed to normalizeText: short ones around the minimum, long
\* ones around the cap, and a value that is no string
NormalizeArguments ==
  {[kind |-> "doc", len |-> l] :
     l \in (0..MaxShortText)
             \cup {MAX_TEXT_LENGTH - 1, MAX_TEXT_LENGTH, MAX_TEXT_LENGTH + 1, MaxLongText}}
    \cup {[kind |-> "nonstring", len |-> 0]}

\* fn: normalizeText of textExtractor.ts ("plain") or of part_022
\* ("capped"); checkPlagiarism of part_019, as far as the text length goes
NormalizeCalls ==
  {[pc |-> "called", fn |-> f, text |-> t, outcome |-> Ok(0), note |-> FALSE] :
     f \in {"plain", "capped", "checkPlagiarism"}, t \in NormalizeArguments}

NormalizeReturn ==
  /\ pureCall.pc = "called"
  /\ pureCall.fn \in {"plain", "capped"}
  /\ pureCall' =
       [pureCall EXCEPT !.pc = "returned",
                        !.outcome = IF pureCall.fn = "plain"
                                      THEN normalizeText(pureCall.text)
                                      ELSE normalizeTextCapped(pureCall.text)]
  /\ UNCHANGED <<pipelineVars, retryVars, cacheVars, chunkVars, requestVars, keyVars>>

\* checkPlagiarism of part_019: fullText is the normalized text,
\* normalizedTextLength its length, and generateExplanation is given that
\* length
TextLengthExplained ==
  /\ pureCall.pc = "called"
  /\ pureCall.fn = "checkPlagiarism"
  /\ LET fullText == normalizeTextCapped(pureCall.text)
     IN
     pureCall' =
       [pureCall EXCEPT !.pc = "returned",
                        !.outcome = fullText,
                        !.note = fullText.kind = "ok" /\ TruncationNote(fullText.value)]
  /\ UNCHANGED <<pipelineVars, retryVars, cacheVars, chunkVars, requestVars, keyVars>>

\* one chunk of a document through the body of a batch task, search done:
\* `found' results came back, and calls[j] is what scoring source j meets.
\* Up to MaxSources results meet every cache read and service behaviour; one
\* more than TOP_N_RESULTS meet cached scores only.
ScoredLengths == {1200, 3000}

ChunkCalls ==
  UNION {
    {[pc |-> "called", fn |-> "processChunk", len |-> l, index |-> i,
      geminiKey |-> g, found |-> n, calls |-> cl, segs |-> << >>,
      pct |-> [num |-> 0, den |-> 1]] :
        i \in 1..Len(chunkText(l)), g \in BOOLEAN,
        cl \in [1..Min(n, TOP_N_RESULTS) ->
                  IF n <= MaxSources THEN ScoreCalls
                  ELSE {[read |-> Hit(v), script |-> Steady([r |-> "noparse", v |-> 0])] :
                          v \in {30, 80}}]} :
    l \in ScoredLengths, n \in (0..MaxSources) \cup {TOP_N_RESULTS + 1}}

\* scoreChunkAgainstSources, the push of the segment, and the percentage the
\* report gives when this chunk is the only one with sources
ChunkProcessed ==
  /\ pureCall.pc = "called"
  /\ pureCall.fn = "processChunk"
  /\ LET reads == [j \in DOMAIN pureCall.calls |-> pureCall.calls[j].read]
         scripts == [j \in DOMAIN pureCall.calls |-> pureCall.calls[j].script]
         o == scoreChunkAgainstSources(pureCall.geminiKey, pureCall.found,
                                       reads, scripts)
         pushed ==
           IF o.kind = "throw" THEN << >>
           ELSE SegmentPushed(<< >>, chunkText(pureCall.len)[pureCall.index],
                              o.value)
     IN pureCall' =
          [pureCall EXCEPT
             !.pc = "returned", !.segs = pushed,
             !.pct = calculatePlagiarismPercentage(pureCall.len,
                                                   SortByStart(pushed))]
  /\ UNCHANGED <<pipelineVars, retryVars, cacheVars, chunkVars, requestVars, keyVars>>

\* the segments handed to the aggregation: up to MaxSegments ranges of a
\* text of MaxCoverText characters, in any order
CoverRanges ==
  {r \in {[startIndex |-> a, endIndex |-> b] :
            a \in 0..MaxCoverText, b \in 0..MaxCoverText} :
     r.startIndex < r.endIndex}

CoverLists == UNION {[1..n -> CoverRanges] : n \in 0..MaxSegments}

RECURSIVE SumOfLengths(_, _)
SumOfLengths(segs, i) ==
  IF i > Len(segs) THEN 0
  ELSE (segs[i].endIndex - segs[i].startIndex) + SumOfLengths(segs, i + 1)

\* Step 4 of checkPlagiarism in part_019: the segment lengths are added up
summedPlagiarismPercentage(len, segs) ==
  IF Len(segs) > 0
    THEN [num |-> Min(100 * len, SumOfLengths(segs, 1) * 100), den |-> len]
    ELSE [num |-> 0, den |-> 1]

\* fn: calculatePlagiarismPercentage of plagiarismChecker.ts ("merged") or
\* Step 4 of checkPlagiarism in part_019 ("summed")
CoverageCalls ==
  {[pc |-> "called", fn |-> f, len |-> MaxCoverText, segs |-> l, total |-> 0,
    pct |-> [num |-> 0, den |-> 1]] :
      f \in {"merged", "summed"}, l \in CoverLists}

CoverageReturn ==
  /\ pureCall.pc = "called"
  /\ pureCall.fn \in {"merged", "summed"}
  /\ pureCall' =
       IF pureCall.fn = "merged"
         THEN [pureCall EXCEPT
                 !.pc = "returned",
                 !.total = IF Len(pureCall.segs) = 0 THEN 0
                           ELSE totalSuspiciousChars(pureCall.segs),
                 !.pct = calculatePlagiarismPercentage(pureCall.len, pureCall.segs)]
         ELSE [pureCall EXCEPT
                 !.pc = "returned",
                 !.total = SumOfLengths(pureCall.segs, 1),
                 !.pct = summedPlagiarismPercentage(pureCall.len, pureCall.segs)]
  /\ UNCHANGED <<pipelineVars, retryVars, cacheVars, chunkVars, requestVars, keyVars>>

CallsInit ==
  /\ PipelineAtRest
  /\ RetryAtRest
  /\ CacheAtRest
  /\ ChunkAtRest
  /\ RequestAtRest
  /\ KeysAtRest
  /\ \/ pureCall \in NormalizeCalls
     \/ pureCall \in ChunkCalls
     \/ pureCall \in CoverageCalls

CallsNext ==
  \/ NormalizeReturn
  \/ TextLengthExplained
  \/ ChunkProcessed
  \/ CoverageReturn

SpecCalls == CallsInit /\ [][CallsNext]_vars

\* ------------------------------------------------------------------------
\* api/check-plagiarism: the handler, its deadline and its response
\* ------------------------------------------------------------------------
\* what reaches the handler: an oversized request, a CORS preflight, a method
\* other than POST, a body that is not JSON, a text above the API limit, a
\* file that does not decode, or a well-formed POST
RequestKinds ==
  {"too_large", "options", "not_post", "bad_json", "text_too_long",
   "bad_buffer", "post"}

\* the body written to res: res.status(200).json(data), or .end() with no body
JsonFailure(type, m) ==
  [body |-> "json", success |-> FALSE, errorType |-> type, message |-> m,
   data |-> << >>]

JsonSuccess(report) ==
  [body |-> "json", success |-> TRUE, errorType |-> "", message |-> << >>,
   data |-> report]

EmptyBody ==
  [body |-> "empty", success |-> TRUE, errorType |-> "", message |-> << >>,
   data |-> << >>]

\* the errorMessage handed to withTimeout
TimedOutMessage == <<"Analysis", "timed out">>

\* the bad_request answers of the validation paths
ValidationResponse(kind) ==
  JsonFailure("bad_request",
    CASE kind = "too_large" -> <<"Request too large">>
      [] kind = "not_post" -> <<"Only POST is allowed">>
      [] kind = "bad_json" -> <<"Invalid JSON body">>
      [] kind = "text_too_long" -> <<"Text too long">>
      [] OTHER -> <<"Invalid file data">>)

\* safeSendResponse: the first call writes, every later one returns at once
safeSendResponse(req, data) ==
  IF req.responseSent
    THEN req
    ELSE [req EXCEPT !.responseSent = TRUE, !.sent = Append(@, data)]

\* a race that the timer never settles: the caller waits for the pipeline
RaceWithoutDeadline(winner, event) ==
  IF event = "timeout" THEN winner
  ELSE IF winner = "pending" THEN event ELSE winner

\* withTimeout: Promise.race settles with the first of the pipeline's promise
\* and the timer's rejection; what comes second is dropped
Race(winner, event) ==
  IF winner = "pending" THEN event ELSE winner

\* catch (pipelineRunError): the analysis_error answer
PipelineErrorResponse(e) ==
  LET errorMessage ==
        IF e.kind = "Error" THEN e.msg ELSE <<"Pipeline execution failed.">>
      isTimeout ==
        Includes(errorMessage, "timed out") \/ Includes(errorMessage, "timeout")
  IN JsonFailure("analysis_error",
                 IF isTimeout THEN TimedOutMessage ELSE errorMessage)

\* the answer built from a settled PipelineResult
ResultResponse(res) ==
  IF ~res.ok
    THEN LET errorType ==
               IF res.errorType = "" THEN "analysis_error"
               ELSE res.errorType
             errorMessage ==
               IF res.message = << >> THEN <<"Analysis failed">>
               ELSE res.message
             isExtractionTimeout ==
               /\ errorType = "extraction_error"
               /\ \/ Includes(errorMessage, "timed out")
                  \/ Includes(errorMessage, "timeout")
         IN JsonFailure(IF isExtractionTimeout THEN "extraction_timeout"
                        ELSE errorType, errorMessage)
    ELSE JsonSuccess(res.report)

\* the handler after its await on withTimeout: the race rejected with the
\* timer's error, or resolved with the pipeline's result
HandlerResumes(req, won) ==
  [(IF won = "timeout"
      THEN safeSendResponse(req, PipelineErrorResponse(Err(TimedOutMessage)))
      ELSE safeSendResponse(req, ResultResponse(req.pipeline.result)))
   EXCEPT !.pc = "done"]

\* the stub of getPipeline when the import fails
StubResult == Failure("analysis_error", <<"Failed to load plagiarism pipeline">>)

\* what runPlagiarismPipeline resolves with (it never rejects)
PipelineResults ==
  {Success([plagiarismPercentage |-> p]) : p \in {0, 40}}
    \cup {Failure(t, m) :
            t \in {"bad_request", "extraction_error", "upstream_error",
                   "analysis_error"},
            m \in {<<"failed">>, <<"extraction", "timed out">>}}

NoPipeline == [state |-> "none", remaining |-> 0, result |-> StubResult]

RequestInit ==
  /\ PipelineAtRest
  /\ RetryAtRest
  /\ CacheAtRest
  /\ ChunkAtRest
  /\ CallAtRest
  /\ KeysAtRest
  /\ request \in
       {[pc |-> "received", kind |-> k, responseSent |-> FALSE, sent |-> << >>,
         timer |-> "unset", race |-> "none", pipeline |-> NoPipeline,
         late |-> 0] : k \in RequestKinds}

\* the handler up to its first await: the validation paths answer and return
HandlerValidates ==
  /\ request.pc = "received"
  /\ request' =
       CASE request.kind = "options" ->
              [request EXCEPT !.responseSent = TRUE,
                              !.sent = Append(@, EmptyBody), !.pc = "done"]
         [] request.kind = "post" -> [request EXCEPT !.pc = "loading"]
         [] OTHER ->
              [safeSendResponse(request, ValidationResponse(request.kind))
                 EXCEPT !.pc = "done"]
  /\ UNCHANGED <<pipelineVars, retryVars, cacheVars, chunkVars, callVars, keyVars>>

\* getPipeline has resolved with the pipeline or with its stub; the handler
\* calls it and arms the timer of withTimeout
PipelineStarts ==
  /\ request.pc = "loading"
  /\ \E imported \in BOOLEAN, steps \in 0..MaxPipelineSteps,
        settles \in PipelineResults :
       request' =
         [request EXCEPT
            !.pc = "racing", !.timer = "armed", !.race = "pending",
            !.pipeline =
              IF imported
                THEN [state |-> "running", remaining |-> steps,
                      result |-> settles]
                ELSE [state |-> "running", remaining |-> 0,
                      result |-> StubResult]]
  /\ UNCHANGED <<pipelineVars, retryVars, cacheVars, chunkVars, callVars, keyVars>>

\* a collaborator answers the pipeline, which writes the cache and goes on;
\* the pipeline is not cancelled when the race is over
PipelineStep ==
  /\ request.pipeline.state = "running"
  /\ request.pipeline.remaining > 0
  /\ request' =
       [request EXCEPT
          !.pipeline.remaining = @ - 1,
          !.late = IF request.race = "pending" THEN @ ELSE @ + 1]
  /\ UNCHANGED <<pipelineVars, retryVars, cacheVars, chunkVars, callVars, keyVars>>

\* the pipeline's promise resolves
PipelineSettles ==
  /\ request.pipeline.state = "running"
  /\ request.pipeline.remaining = 0
  /\ LET won == Race(request.race, "pipeline")
         settled ==
           [request EXCEPT
              !.pipeline.state = "settled", !.race = won,
              !.late = IF request.race = "pending" THEN @ ELSE @ + 1]
     IN request' =
          IF request.race = "pending" /\ won # "pending"
            THEN HandlerResumes(settled, won)
            ELSE settled
  /\ UNCHANGED <<pipelineVars, retryVars, cacheVars, chunkVars, callVars, keyVars>>

\* the deadline elapses: the timer of withTimeout rejects (it is never cleared)
TimerFires ==
  /\ request.timer = "armed"
  /\ LET won == Race(request.race, "timeout")
         fired == [request EXCEPT !.timer = "fired", !.race = won]
     IN request' =
          IF request.race = "pending" /\ won # "pending"
            THEN HandlerResumes(fired, won)
            ELSE fired
  /\ UNCHANGED <<pipelineVars, retryVars, cacheVars, chunkVars, callVars, keyVars>>

RequestNext ==
  \/ HandlerValidates
  \/ PipelineStarts
  \/ PipelineStep
  \/ PipelineSettles
  \/ TimerFires

SpecRequest == RequestInit /\ [][RequestNext]_vars

\* ------------------------------------------------------------------------
\* cache.ts: the cache keys of the three adapters
\* ------------------------------------------------------------------------
\* hash = (hash << 5) - hash + char; hash = hash & hash: 31 * hash + char in
\* 32-bit two's complement, held as its high and low 16 bits
HashStep(h, char) ==
  LET low == h.lo * 31 + char
      high == h.hi * 31 + (low \div 65536)
  IN [hi |-> high % 65536, lo |-> low % 65536]

\* the for loop over the characters a..b of the text, left to right; the
\* range is halved so that the evaluation stays shallow on long texts
RECURSIVE HashLoop(_, _, _, _)
HashLoop(text, a, b, h) ==
  IF a > b THEN h
  ELSE IF a = b THEN HashStep(h, text[a])
  ELSE LET mid == (a + b) \div 2
           left == HashLoop(text, a, mid, h)
       IN IF left.hi >= 0 THEN HashLoop(text, mid + 1, b, left) ELSE left

\* Math.abs(hash), whose toString(36) is one-to-one
MathAbs(h) ==
  IF h.hi < 32768 THEN h
  ELSE [hi |-> 65535 - h.hi + (IF h.lo = 0 THEN 1 ELSE 0),
        lo |-> (65536 - h.lo) % 65536]

HashOf(text) == MathAbs(HashLoop(text, 1, Len(text), [hi |-> 0, lo |-> 0]))

NoHash == [hi |-> 0 - 1, lo |-> 0 - 1]

getChunkCacheKey(chunk) ==
  [prefix |-> "chunk", first |-> HashOf(chunk), second |-> NoHash]

getSimilarityCacheKey(chunk, snippet) ==
  [prefix |-> "similarity", first |-> HashOf(chunk),
   second |-> HashOf(snippet)]

\* getAICacheKey on the characters of the text: text.slice(0, 1000) is hashed
getAICacheKeyOfText(text) ==
  [prefix |-> "ai",
   first |-> HashOf(SubSeq(text, 1, Min(Len(text), AI_KEY_SAMPLE))),
   second |-> NoHash]

\* chunk texts and snippets: the strings of up to MaxKeyText characters over
\* 'A', 'B' and 'a'
KeyAlphabet == {65, 66, 97}
KeyTexts == UNION {[1..n -> KeyAlphabet] : n \in 1..MaxKeyText}
KeySnippets == {<<65>>, <<97>>}
\* documents longer than the hashed sample
KeyDocuments ==
  {[i \in 1..AI_KEY_SAMPLE |-> 65] \o <<c>> : c \in {65, 66}}
    \cup {<<66>> \o [i \in 1..AI_KEY_SAMPLE |-> 65]}

AdapterInput(chunkChars, snippetChars) ==
  [chunk |-> chunkChars, snippet |-> snippetChars]

KeyFor(adapter, arg) ==
  CASE adapter = "search" -> getChunkCacheKey(arg.chunk)
    [] adapter = "score" -> getSimilarityCacheKey(arg.chunk, arg.snippet)
    [] OTHER -> getAICacheKeyOfText(arg.chunk)

NoLookup ==
  [adapter |-> "none", arg |-> AdapterInput(<< >>, << >>), hit |-> FALSE,
   originAdapter |-> "none", originArg |-> AdapterInput(<< >>, << >>)]

KeysInit ==
  /\ PipelineAtRest
  /\ RetryAtRest
  /\ CacheAtRest
  /\ ChunkAtRest
  /\ CallAtRest
  /\ RequestAtRest
  /\ keyed = [pc |-> "ready", store |-> {}, served |-> NoLookup, lookups |-> 0]

\* an adapter call: getCache under the key of the input; on a hit the cached
\* value is returned, on a miss the service is asked and, if it answers, its
\* result is stored under the key with setCache
Lookup(adapter, arg) ==
  /\ keyed.pc = "ready"
  /\ keyed.lookups < MaxLookups
  /\ LET k == KeyFor(adapter, arg)
         hits == {e \in keyed.store : e.key = k}
     IN
     IF hits # {}
       THEN LET e == CHOOSE e \in hits : TRUE IN
            keyed' =
              [keyed EXCEPT
                 !.lookups = @ + 1,
                 !.served = [adapter |-> adapter, arg |-> arg, hit |-> TRUE,
                             originAdapter |-> e.adapter, originArg |-> e.arg]]
       ELSE \E answered \in BOOLEAN :
              keyed' =
                [keyed EXCEPT
                   !.lookups = @ + 1,
                   !.store =
                     IF answered
                       THEN @ \cup {[key |-> k, adapter |-> adapter, arg |-> arg]}
                       ELSE @,
                   !.served = [adapter |-> adapter, arg |-> arg, hit |-> FALSE,
                               originAdapter |-> adapter, originArg |-> arg]]
  /\ UNCHANGED <<pipelineVars, retryVars, cacheVars, chunkVars, callVars, requestVars>>

\* searchWebForChunk(chunkText)
SearchLookup ==
  \E t \in KeyTexts : Lookup("search", AdapterInput(t, << >>))

\* scoreChunkAgainstSource(ai, chunkText, source)
ScoreLookup ==
  \E t \in KeyTexts, sn \in KeySnippets : Lookup("score", AdapterInput(t, sn))

\* detectAIGeneratedText(fullText)
DetectLookup ==
  \E d \in KeyDocuments : Lookup("detect", AdapterInput(d, << >>))

\* an entry reaches its TTL
KeyExpires ==
  /\ keyed.pc = "ready"
  /\ \E e \in keyed.store : keyed' = [keyed EXCEPT !.store = @ \ {e}]
  /\ UNCHANGED <<pipelineVars, retryVars, cacheVars, chunkVars, callVars, requestVars>>

KeysNext ==
  \/ SearchLookup
  \/ ScoreLookup
  \/ DetectLookup
  \/ KeyExpires

SpecKeys == KeysInit /\ [][KeysNext]_vars

\* ------------------------------------------------------------------------
\* Properties
\* ------------------------------------------------------------------------
\* C1: runPlagiarismPipeline never throws or rejects.  Whatever the input and
\* whatever the extractor and the three services do, a run that has ended
\* has resolved its promise with a PipelineResult whose ok is a boolean (a
\* failure carries an error type and no report, a success carries the
\* report), in both versions of the wrapper, and the result of a run, once
\* returned, is never replaced.
C1_NeverThrows ==
  [][/\ pc' = "done" =>
          /\ result'.settled = "resolved" /\ resultV1'.settled = "resolved"
          /\ result'.ok \in BOOLEAN /\ resultV1'.ok \in BOOLEAN
          /\ result'.ok = (Len(result'.report) = 1)
          /\ result'.ok = (result'.errorType = "")
          /\ resultV1'.ok = (Len(resultV1'.report) = 1)
     /\ pc' # "done" => result'.settled = "pending"
     /\ (pc = "done" /\ runs' = runs) =>
          (result' = result /\ resultV1' = resultV1)]_vars

\* an exception thrown inside checkPlagiarism was turned into a failure result
C1_Witness ==
  /\ pc = "done"
  /\ result.settled = "resolved"
  /\ ~result.ok
  /\ result.errorType \in {"extraction_error", "upstream_error"}
  /\ resultV1.errorType = result.errorType

\* C2: as stated, a run whose input supplies both text and file, or neither,
\* returns ok:false with error type bad_request and no report.
C2_ExactlyOneInput ==
  (/\ pc = "done"
   /\ input.shape = "object"
   /\ (input.text.kind # "absent") = (input.file # "absent"))
    => (~result.ok /\ result.errorType = "bad_request" /\ result.report = << >>)

C4_FatalAbortsRun ==
  \A c \in DOMAIN fault :
    fault[c] \in {"fatal_search", "fatal_score"} =>
      /\ status[c] = "rejected"
      /\ \A d \in DOMAIN status :
           ((d - 1) \div MAX_CONCURRENT_CHUNKS > (c - 1) \div MAX_CONCURRENT_CHUNKS)
             => status[d] = "pending"
      /\ unscoredCount = 0
      /\ pc = "done"
      /\ ~result.ok
      /\ result.errorType = "upstream_error"

\* C5: as stated, a run that reaches the services while a credential is
\* missing ends with ok:false and error type bad_request.
C5_MissingCredential ==
  (/\ pc = "done"
   /\ textLength > 0
   /\ (~env.searchKey \/ ~env.geminiKey))
    => (~result.ok /\ result.errorType = "bad_request")

C7_ClassifierUnavailable ==
  (pc = "done" /\ aiFault = "fatal")
    => (~result.ok /\ result.errorType = "upstream_error" /\ result.report = << >>)

\* C8: chunk cap.  When the document has more chunks than
\* MAX_CHUNKS_TO_PROCESS only the first MAX_CHUNKS_TO_PROCESS chunks get a
\* task; the run ends with a report exactly when no task was rejected, and
\* that report has analysisStatus partial_success and an explanation with
\* the chunk-limit note.
C8_ChunkCap ==
  (Len(chunks) > MAX_CHUNKS_TO_PROCESS) =>
    /\ DOMAIN status = 1..MAX_CHUNKS_TO_PROCESS
    /\ \A c \in DOMAIN status :
         chunksToProcess[c] = chunks[c] /\ chunks[c] = chunkText(textLength)[c]
    /\ pc = "done" =>
         /\ result.ok = (\A c \in DOMAIN status : status[c] = "fulfilled")
         /\ result.ok =>
              /\ result.report[1].analysisStatus = "partial_success"
              /\ Includes(result.report[1].explanation, "chunk_limit_note")

\* a capped document was analysed through both batches and reported
C8_Witness ==
  /\ pc = "done"
  /\ Len(chunks) > MAX_CHUNKS_TO_PROCESS
  /\ result.ok
  /\ batchStart = MAX_CONCURRENT_CHUNKS
  /\ Includes(result.report[1].explanation, "chunk_limit_note")

\* C9: as stated, every report with analysisStatus partial_success has an
\* explanation naming the degradation: the unscored-chunks notice when a
\* chunk was unscored, the chunk-limit note when the cap was reached, and at
\* least one notice in any case.
C9_DegradationExplained ==
  (pc = "done" /\ result.ok
     /\ result.report[1].analysisStatus = "partial_success")
    => LET explanation == result.report[1].explanation IN
       /\ \E n \in {"chunk_limit_note", "search_unavailable_note",
                    "unscored_note", "truncated_note"} :
            Includes(explanation, n)
       /\ unscoredCount > 0 => Includes(explanation, "unscored_note")
       /\ wasLimited => Includes(explanation, "chunk_limit_note")

\* C10: as stated, in every returned report aiVerdict is the verdict the
\* threshold rule gives for aiGeneratedLikelihood.
C10_VerdictConsistent ==
  (pc = "done" /\ result.ok)
    => result.report[1].aiVerdict
         = VerdictFor(result.report[1].aiGeneratedLikelihood)

\* C11: as stated, the report's riskLevel is the blend
\* percentage * 0.6 + likelihood * 100 * 0.4 thresholded at 60 (high) and 30
\* (medium), raised one level when the verdict is likely_ai with a
\* likelihood above 0.7.
C11_RiskLevelEscalated ==
  (pc = "done" /\ result.ok)
    => LET r == result.report[1]
           pct == r.plagiarismPercentage
           blend == pct.num * 6 + r.aiGeneratedLikelihood * 4 * pct.den
           base == IF blend >= 600 * pct.den THEN "high"
                   ELSE IF blend >= 300 * pct.den THEN "medium"
                   ELSE "low"
           raised == IF base = "low" THEN "medium" ELSE "high"
       IN r.riskLevel
            = IF r.aiVerdict = "likely_ai" /\ r.aiGeneratedLikelihood > 70
                THEN raised ELSE base

\* C12: plagiarismPercentage of every returned report is in [0,100], and it
\* is 0 if and only if the report has no suspicious segments.
C12_PercentageRange ==
  (pc = "done" /\ result.ok)
    => LET r == result.report[1]
           pct == r.plagiarismPercentage
       IN /\ pct.den > 0
          /\ 0 <= pct.num
          /\ pct.num <= 100 * pct.den
          /\ (pct.num = 0) = (Len(r.suspiciousSegments) = 0)

\* a report with two overlapping suspicious segments whose merged range is
\* part of the text
C12_Witness ==
  /\ pc = "done"
  /\ result.ok
  /\ Len(result.report[1].suspiciousSegments) = 2
  /\ result.report[1].suspiciousSegments[2].startIndex
       < result.report[1].suspiciousSegments[1].endIndex
  /\ result.report[1].plagiarismPercentage.num > 0
  /\ result.report[1].plagiarismPercentage.num
       < 100 * result.report[1].plagiarismPercentage.den

\* The answers of a service that the specification and the executor both
\* class as retryable (503-class), and as fatal (a malformed body).  The 429
\* answer, which the two class differently, is the subject of C16.
RetryableAnswers == {"http503", "err503", "str503"}
FatalAnswers == {"badjson"}

\* C13 as stated: a function that fails every time with a retryable error is
\* invoked exactly as many times as the count given to the executor, and
\* then its last error propagates.
C13_InvokedMaxAttemptsTimes ==
  (/\ retry.pc \in {"returned", "thrown"}
   /\ \A a \in DOMAIN retry.fn :
        retry.fn[a].kind = "throw" /\ retry.resp[a] \in RetryableAnswers)
    => /\ retry.pc = "thrown"
       /\ retry.invocations = retry.maxRetries

\* C13, amended: the count given to retryWithBackoff is the number of
\* retries.  A function that fails every time with a retryable error is
\* invoked exactly maxRetries + 1 times, then its last error propagates; a
\* delay is slept between two invocations only (maxRetries delays), never
\* after the final failed attempt.  The outcome is the one the adapters'
\* executor computes.
C13_RetryExhaustion ==
  /\ retry.pc \in {"calling", "returned", "thrown"} =>
       retry.sleeps = retry.attempt /\ retry.invocations <= retry.sleeps + 1
  /\ (/\ retry.pc \in {"returned", "thrown"}
      /\ \A a \in DOMAIN retry.fn :
           retry.fn[a].kind = "throw" /\ retry.resp[a] \in RetryableAnswers)
       => /\ retry.pc = "thrown"
          /\ retry.invocations = retry.maxRetries + 1
          /\ retry.sleeps = retry.maxRetries
          /\ retry.outcome = retry.fn[retry.maxRetries + 1]
          /\ retryWithBackoff(retry.fn, retry.maxRetries)
               = [outcome |-> retry.outcome, calls |-> retry.invocations]

\* a service that answers 503 to every request has exhausted three retries
C13_Witness ==
  /\ retry.pc = "thrown"
  /\ retry.maxRetries = MAX_RETRIES
  /\ retry.invocations = MAX_RETRIES + 1
  /\ retry.sleeps = MAX_RETRIES
  /\ \A a \in DOMAIN retry.fn : retry.resp[a] \in RetryableAnswers

\* C14: a function that fails k times with retryable errors and then
\* succeeds, with k below the count given to the executor, makes the call
\* return the function's result after exactly k + 1 invocations (and k
\* delays).
C14_RetrySuccess ==
  \A k \in 0..(retry.maxRetries - 1) :
    (/\ retry.pc \in {"returned", "thrown"}
     /\ retry.fn[k + 1].kind = "ok"
     /\ \A a \in 1..k :
          retry.fn[a].kind = "throw" /\ retry.resp[a] \in RetryableAnswers)
      => /\ retry.pc = "returned"
         /\ retry.outcome = retry.fn[k + 1]
         /\ retry.invocations = k + 1
         /\ retry.sleeps = k

\* the function failed twice and succeeded on the third invocation
C14_Witness ==
  /\ retry.pc = "returned"
  /\ retry.maxRetries = MAX_RETRIES
  /\ retry.invocations = 3
  /\ retry.resp[1] \in RetryableAnswers
  /\ retry.resp[2] \in RetryableAnswers
  /\ retry.fn[3].kind = "ok"
  /\ retry.outcome = retry.fn[3]

C16_RateLimitRetried ==
  (/\ retry.pc = "thrown"
   /\ retry.resp[retry.invocations] = "http429")
    => retry.invocations = retry.maxRetries + 1

\* C17: under an outage of Redis that starts after a successful
\* initialization, the calls still return, and the cache behaves as the local
\* store: a getCache whose Redis command failed returns the value the last
\* setCache of that key was given, that setCache having met the outage too.
C17_OutageFallsBackToLocalStore ==
  \A c \in DOMAIN cacheCalls :
    (/\ cacheCalls[c].pc = "returned"
     /\ cacheCalls[c].op = "get"
     /\ cacheCalls[c].failed
     /\ cacheCalls[c].stale
     /\ cacheCalls[c].want # JsNull)
      => cacheCalls[c].ret = cacheCalls[c].want

\* C18: while no Redis command fails, getCache(k) returns the value of the
\* last setCache(k, v) (0 and the empty list included) until the entry
\* expires, and null after deleteCache(k) or when k was never set, whatever
\* calls on other keys are interleaved.
C18_CacheRoundTrip ==
  \A c \in DOMAIN cacheCalls :
    (/\ cacheCalls[c].pc = "returned"
     /\ cacheCalls[c].op = "get"
     /\ ~cacheCalls[c].failed
     /\ ~cacheCalls[c].stale)
      => /\ cacheCalls[c].ret = cacheCalls[c].want
         /\ cacheCalls[c].backend \in {"redis", "lru"}

\* the LRU store handed back a stored 0 while the other caller wrote the
\* other key
C18_Witness ==
  \E c, d \in DOMAIN cacheCalls :
    /\ cacheCalls[c].pc = "returned"
    /\ cacheCalls[c].op = "get"
    /\ cacheCalls[c].backend = "lru"
    /\ cacheCalls[c].ret = JsNumber(0)
    /\ cacheCalls[c].want = JsNumber(0)
    /\ cacheCalls[d].pc = "returned"
    /\ cacheCalls[d].op = "set"
    /\ cacheCalls[d].key # cacheCalls[c].key

\* C19: the connection to Redis is attempted at most once, whatever calls
\* arrive while the initialization is in progress; once it has failed, the
\* module holds no Redis client, the LRU store exists, no initialization is
\* pending, and every call uses the LRU store.
C19_BackendDecidedOnce ==
  /\ cacheLog.connects <= 1
  /\ Cardinality({c \in DOMAIN cacheCalls :
                    cacheCalls[c].pc \in {"importing", "pinging"}}) <= 1
  /\ cacheLog.failed =>
       /\ ~redisClient
       /\ lruCache.exists
       /\ cacheInitialized
       /\ cacheInitializing = "null"
       /\ \A c \in DOMAIN cacheCalls :
            /\ cacheCalls[c].pc \notin {"importing", "pinging"}
            /\ cacheCalls[c].pc = "returned" => cacheCalls[c].backend = "lru"

\* a call arrived while the connection was being made, the connection
\* failed, and both callers were served by the LRU store
C19_Witness ==
  /\ cacheLog.connects = 1
  /\ cacheLog.failed
  /\ cacheLog.calls = 2
  /\ \A c \in DOMAIN cacheCalls :
       cacheCalls[c].pc = "returned" /\ cacheCalls[c].backend = "lru"

\* the chunks with the characters already covered by their predecessors
\* removed, concatenated
RECURSIVE DeOverlapped(_, _, _)
DeOverlapped(cs, i, covered) ==
  IF i > Len(cs) THEN << >>
  ELSE
    LET c == cs[i]
        fresh == SubSeq(c.text, Max(covered - c.startIndex, 0) + 1, Len(c.text))
    IN fresh \o DeOverlapped(cs, i + 1, Max(covered, c.endIndex))

\* C20: for every text T, the chunks of chunkText start at 0 and end at
\* len(T) (no chunk for the empty text); each chunk holds at most CHUNK_SIZE
\* characters and its text is T[startIndex, endIndex); consecutive chunks
\* leave no gap and overlap by exactly CHUNK_OVERLAP characters, except
\* possibly the last pair, which overlaps by no more; the de-overlapped chunks
\* concatenated give T.
C20_ChunkerInvariants ==
  chunking.pc = "returned" =>
    LET T == chunking.text
        cs == chunking.chunks
        n == Len(cs)
    IN
    /\ (n = 0) = (Len(T) = 0)
    /\ n > 0 => cs[1].startIndex = 0 /\ cs[n].endIndex = Len(T)
    /\ \A i \in 1..n :
         /\ 0 <= cs[i].startIndex
         /\ cs[i].startIndex < cs[i].endIndex
         /\ cs[i].endIndex <= Len(T)
         /\ cs[i].endIndex - cs[i].startIndex <= CHUNK_SIZE
         /\ cs[i].text = SubSeq(T, cs[i].startIndex + 1, cs[i].endIndex)
    /\ \A i \in 1..(n - 1) :
         /\ cs[i].startIndex < cs[i + 1].startIndex
         /\ cs[i + 1].startIndex <= cs[i].endIndex
         /\ cs[i].endIndex - cs[i + 1].startIndex <= CHUNK_OVERLAP
         /\ i < n - 1 => cs[i].endIndex - cs[i + 1].startIndex = CHUNK_OVERLAP
    /\ DeOverlapped(cs, 1, 0) = T

\* a text cut into three chunks, the last two overlapping by fewer than
\* CHUNK_OVERLAP characters
C20_Witness ==
  /\ chunking.pc = "returned"
  /\ Len(chunking.chunks) = 3
  /\ chunking.chunks[1].endIndex - chunking.chunks[2].startIndex = CHUNK_OVERLAP
  /\ chunking.chunks[2].endIndex - chunking.chunks[3].startIndex < CHUNK_OVERLAP
  /\ chunking.chunks[3].endIndex = Len(chunking.text)

\* C22: a non-empty text of at most CHUNK_SIZE characters yields exactly one
\* chunk, holding the whole text; and no chunk follows a chunk that already
\* ends at the end of the text.
C22_NoChunkAfterTheEnd ==
  chunking.pc = "returned" =>
    LET T == chunking.text
        cs == chunking.chunks
    IN
    /\ (Len(T) > 0 /\ Len(T) <= CHUNK_SIZE) => Len(cs) = 1 /\ cs[1].text = T
    /\ \A i \in 1..(Len(cs) - 1) : cs[i].endIndex < Len(T)

\* C21: chunkText terminates, with a finite list of chunks or a
\* configuration error, for every text and every (chunkSize, overlap), in
\* both shapes of its loop.
C21_ChunkingTerminates ==
  <>(chunking.pc \in {"returned", "error"})

\* C23: normalizeText either fails, when the normalized text has fewer than
\* MIN_TEXT_LENGTH characters, or returns a text of MIN_TEXT_LENGTH to
\* MAX_TEXT_LENGTH characters; a normalized text longer than the cap is cut
\* to the cap, not rejected and not returned at full length.  Stated of
\* normalizeText of textExtractor.ts and of part_022.
C23_NormalizedLengthBounds ==
  (/\ pureCall.pc = "returned"
   /\ pureCall.fn \in {"plain", "capped"}
   /\ pureCall.text.kind = "doc")
    => LET len == pureCall.text.len
       IN
       /\ (pureCall.outcome.kind = "throw") = (len < MIN_TEXT_LENGTH)
       /\ pureCall.outcome.kind = "ok" =>
            /\ pureCall.outcome.value >= MIN_TEXT_LENGTH
            /\ pureCall.outcome.value <= MAX_TEXT_LENGTH
            /\ pureCall.outcome.value = Min(len, MAX_TEXT_LENGTH)

\* C24: whenever the normalized input exceeded the cap and was cut, the
\* explanation of the report carries the note that the text was truncated.
C24_TruncationNoted ==
  (/\ pureCall.pc = "returned"
   /\ pureCall.fn = "checkPlagiarism"
   /\ pureCall.outcome.kind = "ok"
   /\ pureCall.text.len > MAX_TEXT_LENGTH)
    => pureCall.note

\* C25: when the deadline elapses before the pipeline has completed, the
\* caller has its timed-out failure in that very step, whatever the pipeline
\* still has in flight; a request never has two responses and a finished
\* handler has written exactly one; and once a response is written, neither
\* a late pipeline result nor a late collaborator answer changes it.
C25_DeadlineState ==
  /\ Len(request.sent) <= 1
  /\ request.pc = "done" => Len(request.sent) = 1
  /\ request.timer = "fired" =>
       /\ request.pc = "done"
       /\ request.race # "pending"
  /\ request.race = "timeout" =>
       /\ request.sent = <<JsonFailure("analysis_error", TimedOutMessage)>>
  /\ request.race = "pipeline" =>
       /\ request.sent = <<ResultResponse(request.pipeline.result)>>

C26_SegmentRule ==
  (pureCall.pc = "returned" /\ pureCall.fn = "processChunk") =>
    LET top == 1..Min(pureCall.found, TOP_N_RESULTS)
        answer(j) ==
          scoreChunkAgainstSource(pureCall.calls[j].read,
                                  pureCall.calls[j].script).outcome
        scored == \A j \in top : answer(j).kind = "ok"
        flagged == \E j \in top : answer(j).value > 50
        above == {j \in top : answer(j).value > 30}
        chunk == chunkText(pureCall.len)[pureCall.index]
        seg == pureCall.segs[1]
    IN
    (pureCall.geminiKey /\ scored) =>
      /\ Len(pureCall.segs) <= 1
      /\ Len(pureCall.segs) = 1 <=> flagged
      /\ Len(pureCall.segs) = 1 =>
           /\ seg.startIndex = chunk.startIndex
           /\ seg.endIndex = chunk.endIndex
           /\ Len(seg.sources) = Cardinality(above)
           /\ {seg.sources[k].source : k \in 1..Len(seg.sources)} = above
           /\ \A k \in 1..Len(seg.sources) :
                seg.sources[k].similarityScore = answer(seg.sources[k].source).value
           /\ \A j \in top : seg.similarityScore >= answer(j).value
           /\ pureCall.pct.num * pureCall.len =
                (chunk.endIndex - chunk.startIndex) * 100 * pureCall.pct.den
      /\ Len(pureCall.segs) = 0 => pureCall.pct.num = 0

\* chunk 2 of the 3000-character text, one source at 0.8 and one at 0.3
C26_Witness ==
  /\ pureCall.pc = "returned"
  /\ pureCall.fn = "processChunk"
  /\ pureCall.len = 3000
  /\ pureCall.index = 2
  /\ pureCall.found = 2
  /\ pureCall.calls[1].read = Hit(30)
  /\ pureCall.calls[2].read = Miss
  /\ pureCall.calls[2].script = Steady([r |-> "sim", v |-> 80])
  /\ Len(pureCall.segs) = 1
  /\ pureCall.segs[1].startIndex = 1300
  /\ pureCall.segs[1].endIndex = 2800
  /\ Len(pureCall.segs[1].sources) = 1
  /\ pureCall.pct = [num |-> 150000, den |-> 3000]

\* a chunk whose best source scores exactly 0.5 gives no segment
C26_WitnessAtHalf ==
  /\ pureCall.pc = "returned"
  /\ pureCall.fn = "processChunk"
  /\ pureCall.geminiKey
  /\ pureCall.found = 1
  /\ pureCall.calls[1].read = Hit(50)
  /\ pureCall.segs = << >>

\* C27: at every moment of a run at most MAX_CONCURRENT_CHUNKS chunk tasks
\* are in flight; a chunk of a later batch is started only when every chunk of
\* the batches before it has finished and the pacing delay between them is
\* over; and the run paces only when a further batch is still to start.
C27_BoundedBatches ==
  LET inFlight == {c \in DOMAIN status : status[c] \in {"searching", "scoring"}}
      finished == {c \in DOMAIN status : status[c] \in {"fulfilled", "rejected"}}
      batchOf(c) == (c - 1) \div MAX_CONCURRENT_CHUNKS
  IN
  /\ Cardinality(inFlight) <= MAX_CONCURRENT_CHUNKS
  /\ \A c \in DOMAIN status :
       status[c] # "pending" =>
         /\ batchStart >= batchOf(c) * MAX_CONCURRENT_CHUNKS
         /\ \A d \in DOMAIN status : batchOf(d) < batchOf(c) => d \in finished
  /\ pc = "pacing" =>
       /\ inFlight = {}
       /\ \E c \in DOMAIN status :
            /\ status[c] = "pending"
            /\ batchOf(c) * MAX_CONCURRENT_CHUNKS = batchStart + MAX_CONCURRENT_CHUNKS

\* the second batch is in flight after the three chunks of the first
C27_Witness ==
  /\ pc = "analyzing"
  /\ batchStart = MAX_CONCURRENT_CHUNKS
  /\ Len(status) = MAX_CHUNKS_TO_PROCESS
  /\ \A c \in 1..MAX_CONCURRENT_CHUNKS : status[c] = "fulfilled"
  /\ status[MAX_CHUNKS_TO_PROCESS] = "scoring"

\* C28: in whatever order the chunk tasks complete, the suspiciousSegments of
\* a returned report are in ascending order of startIndex with no two for the
\* same chunk, and each is the range of one of the first
\* MAX_CHUNKS_TO_PROCESS chunks.
C28_SegmentsSortedAndCapped ==
  (pc = "done" /\ result.ok) =>
    LET segs == result.report[1].suspiciousSegments IN
    /\ \A i \in 1..Len(segs) : \A j \in 1..Len(segs) :
         i < j => segs[i].startIndex < segs[j].startIndex
    /\ \A i \in 1..Len(segs) :
         \E c \in 1..Len(chunks) :
           /\ c <= MAX_CHUNKS_TO_PROCESS
           /\ segs[i].startIndex = chunks[c].startIndex
           /\ segs[i].endIndex = chunks[c].endIndex

\* a document of more chunks than the cap whose report has segments for two
\* processed chunks
C28_Witness ==
  /\ pc = "done"
  /\ result.ok
  /\ Len(chunks) > MAX_CHUNKS_TO_PROCESS
  /\ Len(result.report[1].suspiciousSegments) >= 2
  /\ result.report[1].suspiciousSegments[1].startIndex = chunks[2].startIndex

\* the tasks of a batch completed out of order: the later chunk pushed first
C28_OutOfOrder ==
  /\ pc = "analyzing"
  /\ Len(segments) = 2
  /\ segments[1].startIndex > segments[2].startIndex

\* C29: for every list of segments, in any order, the total of suspicious
\* characters is the number of text positions that lie in at least one
\* segment, and the percentage is that number over the text length, times 100.
C29_CoverageIsTheUnion ==
  (pureCall.pc = "returned" /\ pureCall.fn \in {"merged", "summed"}) =>
    LET covered ==
          {q \in 0..(pureCall.len - 1) :
             \E i \in 1..Len(pureCall.segs) :
               pureCall.segs[i].startIndex <= q /\ q < pureCall.segs[i].endIndex}
    IN
    /\ pureCall.total = Cardinality(covered)
    /\ pureCall.pct.num * pureCall.len
         = Cardinality(covered) * 100 * pureCall.pct.den

\* the same of calculatePlagiarismPercentage of plagiarismChecker.ts alone
C29_MergedCoverageIsTheUnion ==
  pureCall.fn = "merged" => C29_CoverageIsTheUnion

\* three segments out of order, two of them overlapping, merged to 3 positions
C29_MergedOutOfOrder ==
  /\ pureCall.pc = "returned"
  /\ pureCall.fn = "merged"
  /\ Len(pureCall.segs) = 3
  /\ pureCall.segs[1].startIndex > pureCall.segs[2].startIndex
  /\ pureCall.segs[3].startIndex < pureCall.segs[2].endIndex
  /\ pureCall.segs[3].startIndex > pureCall.segs[2].startIndex
  /\ pureCall.total = 3

\* C30: a value an adapter takes from the cache was stored by the same
\* adapter for the same input: the same chunk text, the same chunk and
\* snippet, the same document.
C30_CacheHitsAreInputFaithful ==
  (keyed.pc = "ready" /\ keyed.served.hit) =>
    /\ keyed.served.originAdapter = keyed.served.adapter
    /\ keyed.served.originArg = keyed.served.arg

\* no adapter is served another adapter's entry
C30_AdaptersKeptApart ==
  (keyed.pc = "ready" /\ keyed.served.hit) =>
    keyed.served.originAdapter = keyed.served.adapter

\* the same for the chunk texts of the Source Finder alone
C30_SearchHitsAreInputFaithful ==
  (keyed.pc = "ready" /\ keyed.served.hit /\ keyed.served.adapter = "search") =>
    keyed.served.originArg = keyed.served.arg

\* the same for the (chunk, snippet) pairs of the Similarity Scorer alone
C30_ScoreHitsAreInputFaithful ==
  (keyed.pc = "ready" /\ keyed.served.hit /\ keyed.served.adapter = "score") =>
    keyed.served.originArg = keyed.served.arg

\* the same for the documents of the Authorship Classifier alone
C30_DetectHitsAreInputFaithful ==
  (keyed.pc = "ready" /\ keyed.served.hit /\ keyed.served.adapter = "detect") =>
    keyed.served.originArg = keyed.served.arg

====
